---- MODULE Spec2Model ----
(***************************************************************************)
(* Renfe real-time feed: parsing, insights (aggregation + correlation) and *)
(* the file-based snapshot history (capture, load, retention cleanup).     *)
(*                                                                         *)
(* Encoding.  A nullable number or id is NULL when null; ids (vehicle,     *)
(* trip, route, alert) are positive integers standing for non-empty        *)
(* strings, ordered as the strings are.  A nullable free-form string       *)
(* (effect, cause, status, header, label) is NONE when null.  A JavaScript *)
(* Set whose iteration order is observed is a duplicate-free sequence in   *)
(* insertion order; one whose order is not observed is a set.              *)
(***************************************************************************)
EXTENDS Integers, Sequences, FiniteSets, TLC

VARIABLES
    now,            \* Date.now() / 1000, floored: the wall clock in seconds
    vehicleFeed,    \* upstream response of VEHICLE_POSITIONS_URL
    alertsFeed,     \* upstream response of ALERTS_URL
    insightsPc,     \* position of the getInsights call
    generatedAt,    \* getInsights: const generatedAt
    vehicles,       \* getInsights: settled result of getVehiclePositions()
    alerts,         \* getInsights: settled result of getAlerts()
    insights,       \* the RenfeInsightsDto getInsights resolved with
    args,           \* arguments of a pure helper under evaluation
    ret,            \* its return value
    indexFile,      \* data/history/index.json
    blobs,          \* data/history/snapshot-*.json: file name -> content
    capture,        \* the capture calls of the scheduler and of POST /history/capture
    cleanup,        \* the cleanupOldSnapshots call of the scheduler
    loaded,         \* the answer of the latest loadSnapshotById call
    calls,          \* how many captures and cleanups have been started
    returned        \* the ids storeSnapshot has returned, in order of return

insightsVars == <<vehicleFeed, alertsFeed, insightsPc, generatedAt, vehicles, alerts, insights>>
pureVars == <<args, ret>>
historyVars == <<indexFile, blobs, capture, cleanup, loaded, calls, returned>>

vars == <<now, insightsVars, pureVars, historyVars>>

NULL == -1
NONE == "<null>"

\* ------------------------------------------------------------------ bounds
MaxVehicles == 2
MaxAlerts == 2
MaxClock == 3
MaxTime == 4
MaxCaptures == 2
MaxCleanups == 1
MaxValues == 3

\* keepDays * 24 * 60 * 60
SecondsPerDay == 86400

\* index.snapshots.slice(-20)
SampleSize == 20

\* ----------------------------------------------------------------- helpers
Range(s) == {s[i] : i \in DOMAIN s}

SeqsUpTo(S, n) == UNION {[1..k -> S] : k \in 0..n}

\* JavaScript truthiness of a nullable number / non-empty-or-null string id.
Truthy(x) == x # NULL /\ x # 0

\* Array.prototype.sort(compare): stable; Lt(a, b) stands for compare(a, b) < 0.
SortInsert(sorted, x, Lt(_, _)) ==
    LET later == {j \in DOMAIN sorted : Lt(x, sorted[j])}
        pos == IF later = {} THEN Len(sorted) + 1
               ELSE CHOOSE j \in later : \A k \in later : j <= k
    IN SubSeq(sorted, 1, pos - 1) \o <<x>> \o SubSeq(sorted, pos, Len(sorted))

SortBy(s, Lt(_, _)) ==
    LET f[i \in 0..Len(s)] ==
            IF i = 0 THEN <<>> ELSE SortInsert(f[i - 1], s[i], Lt)
    IN f[Len(s)]

\* [...set].sort(): the members of a Set of ids in ascending order.
SortedIds(S) ==
    LET f[T \in SUBSET S] ==
            IF T = {} THEN <<>>
            ELSE LET m == CHOOSE x \in T : \A y \in T : x <= y
                 IN <<m>> \o f[T \ {m}]
    IN f[S]

\* new Set(iterable) / set.add in insertion order.
SetAdd(s, x) == IF x \in Range(s) THEN s ELSE Append(s, x)

InsertionOrder(s) ==
    LET f[i \in 0..Len(s)] == IF i = 0 THEN <<>> ELSE SetAdd(f[i - 1], s[i])
    IN f[Len(s)]

\* array.filter(pred)
Filter(s, Keep(_)) == SelectSeq(s, Keep)

\* array.map(f)
Map(s, F(_)) == [i \in DOMAIN s |-> F(s[i])]

\* -------------------------------------------------------- pure aggregation
\* isActiveAt with the end instant itself counted as expired.
isActiveAtStrictEnd(start, end, nowSeconds) ==
    LET started == start = NULL \/ start <= nowSeconds
        notEnded == end = NULL \/ end > nowSeconds
    IN started /\ notEnded

isActiveAt(start, end, nowSeconds) ==
    LET started == start = NULL \/ start <= nowSeconds
        notEnded == end = NULL \/ end >= nowSeconds
    IN started /\ notEnded


\* computeDurationMinutes with Math.floor in place of Math.round.
computeDurationMinutesFloor(start, end, nowSeconds) ==
    IF start = NULL THEN NULL
    ELSE LET endTime == IF end # NULL THEN end ELSE nowSeconds
             diffSeconds == endTime - start
         IN IF diffSeconds > 0 THEN diffSeconds \div 60 ELSE NULL

\* Math.round(diffSeconds / 60) of a positive integer: halves go up.
computeDurationMinutes(start, end, nowSeconds) ==
    IF start = NULL THEN NULL
    ELSE LET endTime == IF end # NULL THEN end ELSE nowSeconds
             diffSeconds == endTime - start
         IN IF diffSeconds > 0 THEN (diffSeconds + 30) \div 60 ELSE NULL

\* getDurationBucket with the boundaries compared by <=.
getDurationBucketInclusive(minutes) ==
    IF minutes = NULL THEN "Unknown"
    ELSE IF minutes <= 30 THEN "< 30min"
    ELSE IF minutes <= 60 THEN "30-60min"
    ELSE IF minutes <= 120 THEN "1-2h"
    ELSE IF minutes <= 240 THEN "2-4h"
    ELSE IF minutes <= 480 THEN "4-8h"
    ELSE "> 8h"

getDurationBucket(minutes) ==
    IF minutes = NULL THEN "Unknown"
    ELSE IF minutes < 30 THEN "< 30min"
    ELSE IF minutes < 60 THEN "30-60min"
    ELSE IF minutes < 120 THEN "1-2h"
    ELSE IF minutes < 240 THEN "2-4h"
    ELSE IF minutes < 480 THEN "4-8h"
    ELSE "> 8h"

\* Hour of day of a unix timestamp, for a process whose time zone is UTC.
getHourFromTimestamp(ts) ==
    IF ts = NULL THEN "Unknown" ELSE ToString((ts \div 3600) % 24) \o ":00"

\* countByKey without the final sort.
countByKeyUnsorted(values) ==
    LET keyed == [i \in DOMAIN values |->
                    IF values[i] = NONE THEN "UNKNOWN" ELSE values[i]]
        keys == InsertionOrder(keyed)
    IN [i \in DOMAIN keys |->
           [key |-> keys[i],
            count |-> Cardinality({j \in DOMAIN keyed : keyed[j] = keys[i]})]]

countByKey(values) ==
    LET keyed == [i \in DOMAIN values |->
                    IF values[i] = NONE THEN "UNKNOWN" ELSE values[i]]
        keys == InsertionOrder(keyed)
        entries == [i \in DOMAIN keys |->
                      [key |-> keys[i],
                       count |-> Cardinality({j \in DOMAIN keyed : keyed[j] = keys[i]})]]
        ByCountDesc(a, b) == b.count - a.count < 0
    IN SortBy(entries, ByCountDesc)

\* ------------------------------------------------------ feed parser / zod
\* z.coerce.number(): Number(input).  A raw JSON value is a number, a string
\* holding a decimal number, a string holding other text, or missing.
CoerceNumber(raw) ==
    CASE raw.k = "number" -> [nan |-> FALSE, v |-> raw.v]
      [] raw.k = "string" -> [nan |-> FALSE, v |-> raw.v]
      [] raw.k = "text" -> [nan |-> TRUE, v |-> 0]
      [] raw.k = "undefined" -> [nan |-> TRUE, v |-> 0]

\* PositionSchema without .min and .max.
PositionSchemaNoRange(position) ==
    /\ ~CoerceNumber(position.latitude).nan
    /\ ~CoerceNumber(position.longitude).nan

PositionSchema(position) ==
    LET lat == CoerceNumber(position.latitude)
        lon == CoerceNumber(position.longitude)
    IN /\ ~lat.nan /\ lat.v >= -90 /\ lat.v <= 90
       /\ ~lon.nan /\ lon.v >= -180 /\ lon.v <= 180

\* EntitySchema: id is a non-empty string; every present sub-object must parse.
EntitySchema(entity) ==
    /\ entity.id >= 1
    /\ entity.hasVehicle =>
          /\ entity.hasPosition => PositionSchema(entity.position)
          /\ entity.timestamp = NULL \/ entity.timestamp >= 0

\* FeedSchema.safeParse(json).success: the envelope decodes and every element
\* of the entity array parses.
FeedSchema(response) ==
    /\ response.envelope
    /\ \A i \in DOMAIN response.entity : EntitySchema(response.entity[i])

Pending == [state |-> "pending", value |-> <<>>]
Rejected == [state |-> "rejected", value |-> <<>>]
Fulfilled(v) == [state |-> "fulfilled", value |-> v]

VehicleDto(entity) ==
    [id |-> IF entity.vehicleId # NULL THEN entity.vehicleId ELSE entity.id,
     label |-> entity.label,
     latitude |-> CoerceNumber(entity.position.latitude).v,
     longitude |-> CoerceNumber(entity.position.longitude).v,
     timestamp |-> entity.timestamp,
     tripId |-> entity.tripId,
     routeId |-> entity.routeId,
     currentStatus |-> entity.currentStatus]

CarriesPosition(entity) == entity.hasVehicle /\ entity.hasPosition

\* getVehiclePositions answering an empty list where the code throws.
getVehiclePositionsLenient(response) ==
    IF ~response.ok \/ ~FeedSchema(response) THEN Fulfilled(<<>>)
    ELSE Fulfilled(Map(Filter(response.entity, CarriesPosition), VehicleDto))

getVehiclePositions(response) ==
    IF ~response.ok THEN Rejected
    ELSE IF ~FeedSchema(response) THEN Rejected
    ELSE Fulfilled(Map(Filter(response.entity, CarriesPosition), VehicleDto))

pickTranslatedText(translation) ==
    LET texts == {i \in DOMAIN translation : translation[i] # ""}
    IN IF texts = {} THEN NONE
       ELSE translation[CHOOSE i \in texts : \A j \in texts : i <= j]

AlertsEntitySchema(entity) ==
    /\ entity.id >= 1
    /\ entity.hasAlert =>
          \A i \in DOMAIN entity.activePeriod :
              /\ entity.activePeriod[i].start = NULL \/ entity.activePeriod[i].start >= 0
              /\ entity.activePeriod[i].end = NULL \/ entity.activePeriod[i].end >= 0

AlertsFeedSchema(response) ==
    /\ response.envelope
    /\ \A i \in DOMAIN response.entity : AlertsEntitySchema(response.entity[i])

AlertDto(entity) ==
    [id |-> entity.id,
     cause |-> entity.cause,
     effect |-> entity.effect,
     header |-> pickTranslatedText(entity.headerText),
     description |-> pickTranslatedText(entity.descriptionText),
     url |-> pickTranslatedText(entity.url),
     start |-> IF entity.activePeriod = <<>> THEN NULL ELSE entity.activePeriod[1].start,
     end |-> IF entity.activePeriod = <<>> THEN NULL ELSE entity.activePeriod[1].end,
     informedEntities |-> entity.informedEntity]

CarriesAlert(entity) == entity.hasAlert

getAlerts(response) ==
    IF ~response.ok THEN Rejected
    ELSE IF ~AlertsFeedSchema(response) THEN Rejected
    ELSE Fulfilled(Map(Filter(response.entity, CarriesAlert), AlertDto))


\* ------------------------------------------------------------- getInsights
\* Map<string, Set<string>>: a function from the keys present to id sets.
MapGet(m, k) == IF k \in DOMAIN m THEN m[k] ELSE {}

IndexBy(vs, Key(_)) ==
    LET keys == {Key(vs[i]) : i \in {j \in DOMAIN vs : Truthy(Key(vs[j]))}}
    IN [k \in keys |-> {vs[i].id : i \in {j \in DOMAIN vs : Key(vs[j]) = k}}]

TripIdOf(v) == v.tripId
RouteIdOf(v) == v.routeId

vehiclesByTripId(vs) == IndexBy(vs, TripIdOf)
vehiclesByRouteId(vs) == IndexBy(vs, RouteIdOf)

\* vehicleTimestampsByRoute.get(routeId) ?? []
vehicleTimestampsByRoute(vs, routeId) ==
    LET OnRoute(v) == v.routeId = routeId /\ Truthy(v.timestamp)
        TimestampOf(v) == v.timestamp
    IN Map(Filter(vs, OnRoute), TimestampOf)

InformedTripIds(a) ==
    {a.informedEntities[i].tripId :
        i \in {j \in DOMAIN a.informedEntities : Truthy(a.informedEntities[j].tripId)}}

InformedRouteIds(a) ==
    {a.informedEntities[i].routeId :
        i \in {j \in DOMAIN a.informedEntities : Truthy(a.informedEntities[j].routeId)}}

\* matchedVehicles filled from the informed trip ids only.
MatchedVehiclesTripOnly(vs, a) ==
    UNION {MapGet(vehiclesByTripId(vs), t) : t \in InformedTripIds(a)}

MatchedVehicles(vs, a) ==
    UNION {MapGet(vehiclesByTripId(vs), t) : t \in InformedTripIds(a)}
    \cup UNION {MapGet(vehiclesByRouteId(vs), r) : r \in InformedRouteIds(a)}

\* The correlation with isActiveNow evaluated at the clock, not at generatedAt.
CorrelationLateNow(vs, a, at) ==
    LET matchedVehicleIds == SortedIds(MatchedVehicles(vs, a))
    IN [alertId |-> a.id, header |-> a.header, cause |-> a.cause,
        effect |-> a.effect, start |-> a.start, end |-> a.end,
        isActiveNow |-> isActiveAt(a.start, a.end, now),
        matchedVehicleIds |-> matchedVehicleIds,
        matchedTripIds |-> SortedIds(InformedTripIds(a)),
        matchedRouteIds |-> SortedIds(InformedRouteIds(a)),
        matchedVehicleCount |-> Len(matchedVehicleIds)]

\* The correlation with the matched ids kept in an array: those found by
\* trip, then those found by route.
CorrelationTripThenRoute(vs, a, at) ==
    LET matchedVehicleIds ==
            SortedIds(MatchedVehiclesTripOnly(vs, a))
            \o SortedIds(UNION {MapGet(vehiclesByRouteId(vs), r) : r \in InformedRouteIds(a)})
    IN [alertId |-> a.id, header |-> a.header, cause |-> a.cause,
        effect |-> a.effect, start |-> a.start, end |-> a.end,
        isActiveNow |-> isActiveAt(a.start, a.end, at),
        matchedVehicleIds |-> matchedVehicleIds,
        matchedTripIds |-> SortedIds(InformedTripIds(a)),
        matchedRouteIds |-> SortedIds(InformedRouteIds(a)),
        matchedVehicleCount |-> Len(matchedVehicleIds)]

Correlation(vs, a, at) ==
    LET matchedVehicleIds == SortedIds(MatchedVehicles(vs, a))
    IN [alertId |-> a.id, header |-> a.header, cause |-> a.cause,
        effect |-> a.effect, start |-> a.start, end |-> a.end,
        isActiveNow |-> isActiveAt(a.start, a.end, at),
        matchedVehicleIds |-> matchedVehicleIds,
        matchedTripIds |-> SortedIds(InformedTripIds(a)),
        matchedRouteIds |-> SortedIds(InformedRouteIds(a)),
        matchedVehicleCount |-> Len(matchedVehicleIds)]

\* The route ids of the vehicles only.
allRouteIdsOfVehicles(vs, as) ==
    LET RouteOf(v) == v.routeId
        NotNull(r) == r # NULL
    IN InsertionOrder(Filter(Map(vs, RouteOf), NotNull))

\* [...allRouteIds]: route ids of vehicles, then of alerts' informed entities.
AllInformedRouteIds(as) ==
    LET f[i \in 0..Len(as)] ==
            IF i = 0 THEN <<>>
            ELSE f[i - 1] \o [j \in DOMAIN as[i].informedEntities |->
                                 as[i].informedEntities[j].routeId]
    IN f[Len(as)]

allRouteIds(vs, as) ==
    InsertionOrder(Filter(Map(vs, RouteIdOf) \o AllInformedRouteIds(as), Truthy))

InformsRoute(a, routeId) ==
    \E i \in DOMAIN a.informedEntities : a.informedEntities[i].routeId = routeId

MaxOf(s) == CHOOSE x \in Range(s) : \A y \in Range(s) : y <= x

RouteSummary(vs, as, routeId, at) ==
    LET OnRoute(a) == InformsRoute(a, routeId)
        ActiveNow(a) == isActiveAt(a.start, a.end, at)
        EffectOf(a) == a.effect
        NotNull(e) == e # NONE
        routeAlerts == Filter(as, OnRoute)
        timestamps == vehicleTimestampsByRoute(vs, routeId)
    IN [routeId |-> routeId,
        vehicleCount |-> Cardinality(MapGet(vehiclesByRouteId(vs), routeId)),
        alertCount |-> Len(routeAlerts),
        activeAlertCount |-> Len(Filter(routeAlerts, ActiveNow)),
        effects |-> InsertionOrder(Filter(Map(routeAlerts, EffectOf), NotNull)),
        lastVehicleUpdate |-> IF Len(timestamps) > 0 THEN MaxOf(timestamps) ELSE NULL]

routeSummaries(vs, as, at) ==
    LET Summary(routeId) == RouteSummary(vs, as, routeId, at)
        ByAlertCountDesc(a, b) == b.alertCount - a.alertCount < 0
    IN SortBy(Map(allRouteIds(vs, as), Summary), ByAlertCountDesc)

TimelineItem(a, at) ==
    [alertId |-> a.id, header |-> a.header, cause |-> a.cause,
     effect |-> a.effect, start |-> a.start, end |-> a.end,
     isActiveNow |-> isActiveAt(a.start, a.end, at),
     durationMinutes |-> computeDurationMinutes(a.start, a.end, at)]

\* The timeline with a null start ranked above every start.
alertTimelineNullFirst(as, at) ==
    LET Item(a) == TimelineItem(a, at)
        NullFirst(a, b) ==
            \/ (a.start = NULL /\ b.start # NULL)
            \/ (a.start # NULL /\ b.start # NULL /\ b.start - a.start < 0)
    IN SortBy(Map(as, Item), NullFirst)

alertTimeline(as, at) ==
    LET Item(a) == TimelineItem(a, at)
        StartOr0(x) == IF x.start # NULL THEN x.start ELSE 0
        ByStartDesc(a, b) == StartOr0(b) - StartOr0(a) < 0
    IN SortBy(Map(as, Item), ByStartDesc)

\* The matched vehicles counted once per correlation they appear in.
vehiclesMatchedSum(correlations) ==
    LET f[i \in 0..Len(correlations)] ==
            IF i = 0 THEN {} ELSE f[i - 1] \cup {<<i, id>> : id \in Range(correlations[i].matchedVehicleIds)}
    IN f[Len(correlations)]

\* vehiclesMatchedSet: the ids added from every correlation's matchedVehicleIds.
vehiclesMatchedSet(correlations) ==
    UNION {Range(correlations[i].matchedVehicleIds) : i \in DOMAIN correlations}

BuildInsights(vs, as, at) ==
    LET Corr(a) == Correlation(vs, a, at)
        correlations == Map(as, Corr)
        IsActive(c) == c.isActiveNow
        HasMatches(c) == c.matchedVehicleCount > 0
        summaries == routeSummaries(vs, as, at)
        HasAlerts(r) == r.alertCount > 0
        EffectOf(a) == a.effect
        CauseOf(a) == a.cause
        StatusOf(v) == v.currentStatus
        HourOf(a) == getHourFromTimestamp(a.start)
        BucketOf(a) == getDurationBucket(computeDurationMinutes(a.start, a.end, at))
        ByMatchedDesc(a, b) == b.matchedVehicleCount - a.matchedVehicleCount < 0
    IN [generatedAt |-> at,
        totals |-> [vehicles |-> Len(vs),
                    alerts |-> Len(as),
                    activeAlerts |-> Len(Filter(correlations, IsActive)),
                    alertsWithMatches |-> Len(Filter(correlations, HasMatches)),
                    vehiclesMatched |-> Cardinality(vehiclesMatchedSet(correlations)),
                    uniqueRoutes |-> Len(allRouteIds(vs, as)),
                    routesWithAlerts |-> Len(Filter(summaries, HasAlerts))],
        alertsByEffect |-> countByKey(Map(as, EffectOf)),
        alertsByCause |-> countByKey(Map(as, CauseOf)),
        vehiclesByStatus |-> countByKey(Map(vs, StatusOf)),
        alertsByHour |-> countByKey(Map(as, HourOf)),
        alertDurationDistribution |-> countByKey(Map(as, BucketOf)),
        routeSummaries |-> summaries,
        alertTimeline |-> alertTimeline(as, at),
        correlations |-> SortBy(correlations, ByMatchedDesc)]


\* ------------------------------------------------------- history storage
\* Strings that the code takes apart (ids, file names) are sequences of tokens.
UNDEFINED == <<>>

SnapshotId(timestamp, random) == <<ToString(timestamp), "-", random>>

SnapshotFilename(id) == <<"snapshot-">> \o id \o <<".json">>

\* string.includes(part)
Includes(string, part) ==
    \E i \in 0..(Len(string) - Len(part)) : SubSeq(string, i + 1, i + Len(part)) = part

\* string.replace(token, "")
RemoveFirst(string, token) ==
    LET at == {i \in DOMAIN string : string[i] = token}
    IN IF at = {} THEN string
       ELSE LET i == CHOOSE j \in at : \A k \in at : j <= k
            IN SubSeq(string, 1, i - 1) \o SubSeq(string, i + 1, Len(string))

\* s.filename.replace("snapshot-", "").replace(".json", "")
IdFromFilename(filename) == RemoveFirst(RemoveFirst(filename, "snapshot-"), ".json")

\* JSON.stringify / JSON.parse of the scalars the history files hold.
JsonNumber(x) == IF x = NULL THEN <<"null">> ELSE <<"number", x>>
JsonString(x) == IF x = NONE THEN <<"null">> ELSE <<"string", x>>
JsonTokens(x) == IF x = UNDEFINED THEN <<"undefined">> ELSE <<"string", x>>
ParseNumber(j) == IF j[1] = "number" THEN j[2] ELSE NULL
ParseString(j) == IF j[1] = "string" THEN j[2] ELSE NONE
ParseTokens(j) == IF j[1] = "string" THEN j[2] ELSE UNDEFINED

StringifyCounts(series) ==
    [i \in DOMAIN series |->
        [key |-> JsonString(series[i].key), count |-> JsonNumber(series[i].count)]]

ParseCounts(series) ==
    [i \in DOMAIN series |->
        [key |-> ParseString(series[i].key), count |-> ParseNumber(series[i].count)]]

StringifyTotals(t) ==
    [vehicles |-> JsonNumber(t.vehicles), alerts |-> JsonNumber(t.alerts),
     activeAlerts |-> JsonNumber(t.activeAlerts),
     alertsWithMatches |-> JsonNumber(t.alertsWithMatches),
     vehiclesMatched |-> JsonNumber(t.vehiclesMatched),
     uniqueRoutes |-> JsonNumber(t.uniqueRoutes),
     routesWithAlerts |-> JsonNumber(t.routesWithAlerts)]

ParseTotals(t) ==
    [vehicles |-> ParseNumber(t.vehicles), alerts |-> ParseNumber(t.alerts),
     activeAlerts |-> ParseNumber(t.activeAlerts),
     alertsWithMatches |-> ParseNumber(t.alertsWithMatches),
     vehiclesMatched |-> ParseNumber(t.vehiclesMatched),
     uniqueRoutes |-> ParseNumber(t.uniqueRoutes),
     routesWithAlerts |-> ParseNumber(t.routesWithAlerts)]

StringifyVehicle(v) ==
    [id |-> JsonNumber(v.id), label |-> JsonString(v.label),
     routeId |-> JsonNumber(v.routeId), tripId |-> JsonNumber(v.tripId),
     latitude |-> JsonNumber(v.latitude), longitude |-> JsonNumber(v.longitude),
     currentStatus |-> JsonString(v.currentStatus)]

ParseVehicle(v) ==
    [id |-> ParseNumber(v.id), label |-> ParseString(v.label),
     routeId |-> ParseNumber(v.routeId), tripId |-> ParseNumber(v.tripId),
     latitude |-> ParseNumber(v.latitude), longitude |-> ParseNumber(v.longitude),
     currentStatus |-> ParseString(v.currentStatus)]

StringifyAlert(a) ==
    [id |-> JsonNumber(a.id), header |-> JsonString(a.header),
     effect |-> JsonString(a.effect), cause |-> JsonString(a.cause),
     start |-> JsonNumber(a.start), end |-> JsonNumber(a.end)]

ParseAlert(a) ==
    [id |-> ParseNumber(a.id), header |-> ParseString(a.header),
     effect |-> ParseString(a.effect), cause |-> ParseString(a.cause),
     start |-> ParseNumber(a.start), end |-> ParseNumber(a.end)]

\* JSON.stringify(snapshot, null, 2) of a HistorySnapshot.
StringifySnapshot(snapshot) ==
    [id |-> JsonTokens(snapshot.id),
     timestamp |-> JsonNumber(snapshot.timestamp),
     totals |-> StringifyTotals(snapshot.totals),
     alertsByEffect |-> StringifyCounts(snapshot.alertsByEffect),
     alertsByCause |-> StringifyCounts(snapshot.alertsByCause),
     vehiclesByStatus |-> StringifyCounts(snapshot.vehiclesByStatus),
     hasLists |-> TRUE,
     vehicles |-> Map(snapshot.vehicles, StringifyVehicle),
     alerts |-> Map(snapshot.alerts, StringifyAlert)]

\* JSON.parse(content) as HistorySnapshot; a file of an older version has no
\* id, vehicles or alerts keys.
ParseSnapshot(content) ==
    [id |-> ParseTokens(content.id),
     timestamp |-> ParseNumber(content.timestamp),
     totals |-> ParseTotals(content.totals),
     alertsByEffect |-> ParseCounts(content.alertsByEffect),
     alertsByCause |-> ParseCounts(content.alertsByCause),
     vehiclesByStatus |-> ParseCounts(content.vehiclesByStatus),
     hasLists |-> content.hasLists,
     vehicles |-> Map(content.vehicles, ParseVehicle),
     alerts |-> Map(content.alerts, ParseAlert)]

StringifyDescriptor(d) ==
    [id |-> JsonTokens(d.id), timestamp |-> JsonNumber(d.timestamp),
     filename |-> JsonTokens(d.filename),
     vehicleCount |-> JsonNumber(d.vehicleCount), alertCount |-> JsonNumber(d.alertCount)]

ParseDescriptor(d) ==
    [id |-> ParseTokens(d.id), timestamp |-> ParseNumber(d.timestamp),
     filename |-> ParseTokens(d.filename),
     vehicleCount |-> ParseNumber(d.vehicleCount), alertCount |-> ParseNumber(d.alertCount)]

\* The index file: absent, or holding JSON.stringify(index, null, 2).
NoIndexFile == [exists |-> FALSE, snapshots |-> <<>>]
StringifyIndex(index) == [exists |-> TRUE, snapshots |-> Map(index, StringifyDescriptor)]

\* What a writeFile that failed after opening the file leaves: a file cut
\* short, on which JSON.parse throws.
TruncatedFile == [exists |-> TRUE, truncated |-> TRUE]

Parses(content) == "truncated" \notin DOMAIN content

\* fs.promises.writeFile(filepath, content) rejects: the file is as it was
\* (the open failed) or is cut short (a write failed).
WriteFileFails(files, filename) == {files, [f \in DOMAIN files \cup {filename} |->
                                              IF f = filename THEN TruncatedFile ELSE files[f]]}

\* loadIndex(): the snapshots of the index file, or [] when there is none or
\* JSON.parse throws.
loadIndex(file) ==
    IF file.exists /\ Parses(file) THEN Map(file.snapshots, ParseDescriptor) ELSE <<>>

\* fs.promises.writeFile(filepath, content)
WriteFile(files, filename, content) ==
    [f \in DOMAIN files \cup {filename} |-> IF f = filename THEN content ELSE files[f]]

\* fs.promises.unlink(filepath)
Unlink(files, filename) == [f \in DOMAIN files \ {filename} |-> files[f]]

\* The reduced records storeSnapshot keeps of a vehicle and of an alert.
ReducedVehicle(v) ==
    [id |-> v.id, label |-> v.label, routeId |-> v.routeId, tripId |-> v.tripId,
     latitude |-> v.latitude, longitude |-> v.longitude, currentStatus |-> v.currentStatus]

ReducedAlert(a) ==
    [id |-> a.id, header |-> a.header, effect |-> a.effect, cause |-> a.cause,
     start |-> a.start, end |-> a.end]

HistorySnapshot(id, timestamp, ins, vs, as) ==
    [id |-> id, timestamp |-> timestamp, totals |-> ins.totals,
     alertsByEffect |-> ins.alertsByEffect, alertsByCause |-> ins.alertsByCause,
     vehiclesByStatus |-> ins.vehiclesByStatus, hasLists |-> TRUE,
     vehicles |-> Map(vs, ReducedVehicle), alerts |-> Map(as, ReducedAlert)]

Descriptor(id, timestamp, filename, vs, as) ==
    [id |-> id, timestamp |-> timestamp, filename |-> filename,
     vehicleCount |-> Len(vs), alertCount |-> Len(as)]

\* array.find(pred): the first element that satisfies pred, as a 0- or 1-element list.
Find(s, Pred(_)) ==
    LET hits == {i \in DOMAIN s : Pred(s[i])}
    IN IF hits = {} THEN <<>> ELSE <<s[CHOOSE i \in hits : \A j \in hits : i <= j]>>

\* Number.parseInt(id, 10): the leading decimal token of id, or NaN (NULL).
ParseInt(id, known) ==
    IF id # <<>> /\ \E t \in known : ToString(t) = id[1]
    THEN CHOOSE t \in known : ToString(t) = id[1]
    ELSE NULL

\* The lookup of loadSnapshot(timestamp): by the leading timestamp of the id.
FindEntryByTimestampFirst(index, id) ==
    LET ts == ParseInt(id, {index[i].timestamp : i \in DOMAIN index})
        ByTimestamp(d) == d.timestamp = ts
    IN IF ts # NULL THEN Find(index, ByTimestamp) ELSE <<>>

\* The lookup with find taking the last match instead of the first.
FindEntryLastMatch(index, id) ==
    LET ById == {i \in DOMAIN index : index[i].id # UNDEFINED /\ index[i].id = id}
        ByFilename == {i \in DOMAIN index :
                          \/ index[i].filename = SnapshotFilename(id)
                          \/ Includes(index[i].filename, id)}
        Last(hits) == <<index[CHOOSE i \in hits : \A j \in hits : i >= j]>>
    IN IF ById # {} THEN Last(ById)
       ELSE IF ByFilename # {} THEN Last(ByFilename)
       ELSE <<>>

FindEntry(index, id) ==
    LET ById(d) == d.id # UNDEFINED /\ d.id = id
        ByFilename(d) == d.filename = SnapshotFilename(id) \/ Includes(d.filename, id)
        ts == ParseInt(id, {index[i].timestamp : i \in DOMAIN index})
        ByTimestamp(d) == d.timestamp = ts
    IN IF Find(index, ById) # <<>> THEN Find(index, ById)
       ELSE IF Find(index, ByFilename) # <<>> THEN Find(index, ByFilename)
       ELSE IF ts # NULL THEN Find(index, ByTimestamp)
       ELSE <<>>

NotFound == [found |-> FALSE]

\* loadSnapshotById(id): null (NotFound) or the parsed snapshot.
loadSnapshotById(file, files, id) ==
    LET entry == FindEntry(loadIndex(file), id)
    IN IF entry = <<>> THEN NotFound
       ELSE IF entry[1].filename \notin DOMAIN files THEN NotFound
       ELSE IF ~Parses(files[entry[1].filename]) THEN NotFound
       ELSE LET snapshot == ParseSnapshot(files[entry[1].filename])
            IN [found |-> TRUE,
                snapshot |-> [snapshot EXCEPT
                    !.id = IF snapshot.id # UNDEFINED THEN snapshot.id ELSE id,
                    !.hasLists = TRUE]]

\* getSnapshotList(from, to): the descriptors within the range, each with
\* its id, or the id derived from its filename, and its counts or 0.
ListedDescriptor(d) ==
    [id |-> IF d.id # UNDEFINED THEN d.id ELSE IdFromFilename(d.filename),
     timestamp |-> d.timestamp,
     vehicleCount |-> IF d.vehicleCount # NULL THEN d.vehicleCount ELSE 0,
     alertCount |-> IF d.alertCount # NULL THEN d.alertCount ELSE 0]

getSnapshotList(file, from, to) ==
    LET FromOn(d) == from = NULL \/ d.timestamp >= from
        UpTo(d) == to = NULL \/ d.timestamp <= to
    IN Map(Filter(Filter(loadIndex(file), FromOn), UpTo), ListedDescriptor)

\* array.slice(-n): the last n elements.
LastN(s, n) == SubSeq(s, IF Len(s) > n THEN Len(s) - n + 1 ELSE 1, Len(s))

\* total += entry.count ?? 0 over the entries.
SumOrZero(counts) ==
    LET f[i \in 0..Len(counts)] ==
            IF i = 0 THEN 0
            ELSE f[i - 1] + (IF counts[i] # NULL THEN counts[i] ELSE 0)
    IN f[Len(counts)]

\* new Date(timestamp * 1000).toISOString().slice(0, 10): the UTC day, as the
\* number of the day; ISO dates compare as their day numbers do.
IsoDate(timestamp) == timestamp \div SecondsPerDay

\* The id getHistorySummary asks loadSnapshotById for.
SampleId(d) == IF d.id # UNDEFINED THEN d.id ELSE IdFromFilename(d.filename)

EmptySummary ==
    [failed |-> FALSE, totalSnapshots |-> 0, oldestSnapshot |-> NULL,
     newestSnapshot |-> NULL, totalVehicleRecords |-> 0, totalAlertRecords |-> 0,
     uniqueVehicleIds |-> 0, uniqueAlertIds |-> 0, snapshotsByDay |-> <<>>]

\* The ids of the records of the sampled entries that loadSnapshotById
\* returned; an entry it returned null for adds none.
SampledVehicleIds(file, files, sample) ==
    UNION {LET entry == loadSnapshotById(file, files, SampleId(sample[i]))
           IN IF entry.found
              THEN {entry.snapshot.vehicles[k].id : k \in DOMAIN entry.snapshot.vehicles}
              ELSE {} : i \in DOMAIN sample}

SampledAlertIds(file, files, sample) ==
    UNION {LET entry == loadSnapshotById(file, files, SampleId(sample[i]))
           IN IF entry.found
              THEN {entry.snapshot.alerts[k].id : k \in DOMAIN entry.snapshot.alerts}
              ELSE {} : i \in DOMAIN sample}

\* The body of getHistorySummary: no statement of it throws for an index
\* loadIndex returned, so the call resolves (failed is FALSE).
HistorySummary(file, files) ==
    LET index == loadIndex(file)
        VehicleCountOf(d) == d.vehicleCount
        AlertCountOf(d) == d.alertCount
        DateOf(d) == IsoDate(d.timestamp)
        sample == LastN(index, SampleSize)
        days == SortedIds({IsoDate(index[i].timestamp) : i \in DOMAIN index})
        DayCount(date) ==
            [date |-> date,
             count |-> Cardinality({i \in DOMAIN index : IsoDate(index[i].timestamp) = date})]
    IN IF Len(index) = 0 THEN EmptySummary
       ELSE [failed |-> FALSE,
             totalSnapshots |-> Len(index),
             oldestSnapshot |-> index[1].timestamp,
             newestSnapshot |-> index[Len(index)].timestamp,
             totalVehicleRecords |-> SumOrZero(Map(index, VehicleCountOf)),
             totalAlertRecords |-> SumOrZero(Map(index, AlertCountOf)),
             uniqueVehicleIds |-> Cardinality(SampledVehicleIds(file, files, sample)),
             uniqueAlertIds |-> Cardinality(SampledAlertIds(file, files, sample)),
             snapshotsByDay |-> Map(days, DayCount)]

\* getHistorySummary with a failed load of a sampled entry thrown on.
getHistorySummaryStrict(file, files) ==
    LET sample == LastN(loadIndex(file), SampleSize)
    IN IF \E i \in DOMAIN sample :
              ~loadSnapshotById(file, files, SampleId(sample[i])).found
       THEN [failed |-> TRUE]
       ELSE HistorySummary(file, files)

getHistorySummary(file, files) == HistorySummary(file, files)

\* RenfeController.getSnapshotById: the isActive flag of a stored alert.
SnapshotAlertIsActive(start, end, nowSeconds) ==
    start # NULL /\ start <= nowSeconds /\ (end = NULL \/ end > nowSeconds)

ResponseVehicle(v) ==
    [id |-> v.id, label |-> v.label, routeId |-> v.routeId,
     latitude |-> v.latitude, longitude |-> v.longitude]

\* RenfeController.getSnapshotById: NotFoundException when loadSnapshotById
\* returned null, else the entry with its counts and its alerts' isActive.
getSnapshotById(file, files, id, nowSeconds) ==
    LET entry == loadSnapshotById(file, files, id)
        ResponseAlert(a) ==
            [id |-> a.id, header |-> a.header, effect |-> a.effect,
             isActive |-> SnapshotAlertIsActive(a.start, a.end, nowSeconds)]
    IN IF ~entry.found THEN [status |-> 404]
       ELSE [status |-> 200,
             id |-> entry.snapshot.id,
             timestamp |-> entry.snapshot.timestamp,
             vehicleCount |-> Len(entry.snapshot.vehicles),
             alertCount |-> Len(entry.snapshot.alerts),
             vehicles |-> Map(entry.snapshot.vehicles, ResponseVehicle),
             alerts |-> Map(entry.snapshot.alerts, ResponseAlert)]

\* ---------------------------------------------------- upstream feed inputs
Num(v) == [k |-> "number", v |-> v]
Str(v) == [k |-> "string", v |-> v]
Text == [k |-> "text", v |-> 0]
Undefined == [k |-> "undefined", v |-> 0]

RawVehicle(id, vehicleId, tripId, routeId, ts, hasVehicle, hasPosition, lat, lon) ==
    [id |-> id, hasVehicle |-> hasVehicle, hasPosition |-> hasPosition,
     position |-> [latitude |-> lat, longitude |-> lon],
     timestamp |-> ts, currentStatus |-> "IN_TRANSIT_TO",
     tripId |-> tripId, routeId |-> routeId, vehicleId |-> vehicleId, label |-> NONE]

RawInformed(routeId, tripId, stopId) ==
    [agencyId |-> NULL, routeId |-> routeId, stopId |-> stopId, tripId |-> tripId]

RawAlert(id, hasAlert, effect, periods, informed) ==
    [id |-> id, hasAlert |-> hasAlert, cause |-> NONE, effect |-> effect,
     headerText |-> <<"", "Obras">>, descriptionText |-> <<>>, url |-> <<>>,
     activePeriod |-> periods, informedEntity |-> informed]

Response(ok, envelope, entity) == [ok |-> ok, envelope |-> envelope, entity |-> entity]

\* Vehicles and alerts that differ in the identifiers the correlation joins on.
JoinVehicles ==
    {RawVehicle(2, 1, 1, 1, NULL, TRUE, TRUE, Num(40), Num(-3)),
     RawVehicle(2, 1, NULL, 2, NULL, TRUE, TRUE, Num(40), Num(-3)),
     RawVehicle(2, 2, 1, NULL, NULL, TRUE, TRUE, Num(40), Num(-3)),
     RawVehicle(3, NULL, NULL, 1, NULL, TRUE, TRUE, Num(40), Num(-3))}

JoinInformed ==
    {<<>>,
     <<RawInformed(1, NULL, NULL)>>,
     <<RawInformed(2, NULL, NULL)>>,
     <<RawInformed(NULL, 1, NULL)>>,
     <<RawInformed(1, NULL, NULL), RawInformed(NULL, 1, NULL)>>,
     <<RawInformed(NULL, NULL, 7)>>}

JoinAlerts == {RawAlert(1, TRUE, "DELAY", <<>>, ie) : ie \in JoinInformed}

\* Alerts that differ in their active period, around the instant of the call.
Instants == {NULL, 0, 1, 2}

PeriodAlerts ==
    {RawAlert(1, TRUE, "DELAY", <<[start |-> st, end |-> en]>>,
              <<RawInformed(1, NULL, NULL)>>) :
        st \in Instants, en \in Instants}

PeriodVehicles == {RawVehicle(1, 1, NULL, 1, NULL, TRUE, TRUE, Num(40), Num(-3))}

\* Entities that differ in what the schemas validate.
ShapeVehicles ==
    {RawVehicle(1, 1, NULL, NULL, NULL, TRUE, TRUE, Num(40), Num(-3)),
     RawVehicle(2, 2, NULL, NULL, NULL, TRUE, TRUE, Str(-90), Str(180)),
     RawVehicle(3, 3, NULL, NULL, NULL, TRUE, FALSE, Undefined, Undefined),
     RawVehicle(4, NULL, NULL, NULL, NULL, FALSE, FALSE, Undefined, Undefined),
     RawVehicle(5, 5, NULL, NULL, NULL, TRUE, TRUE, Num(91), Num(0)),
     RawVehicle(6, 6, NULL, NULL, NULL, TRUE, TRUE, Num(0), Str(-181)),
     RawVehicle(7, 7, NULL, NULL, NULL, TRUE, TRUE, Undefined, Num(0)),
     RawVehicle(8, 8, NULL, NULL, NULL, TRUE, TRUE, Num(0), Text)}

ShapeAlerts ==
    {RawAlert(1, TRUE, "DELAY", <<>>, <<>>), RawAlert(2, FALSE, NONE, <<>>, <<>>)}

Responses(pool, n) ==
    {Response(TRUE, TRUE, e) : e \in SeqsUpTo(pool, n)}
    \cup {Response(FALSE, TRUE, <<>>), Response(TRUE, FALSE, <<>>)}

\* No helper is under evaluation.
PureAtRest ==
    /\ args = <<>>
    /\ ret = <<>>

\* An empty history directory and no history operation in progress.
Procs == {"cron", "manual"}
IdleCapture == [pc |-> "idle"]
IdleCleanup == [pc |-> "idle"]
NotLoaded == [id |-> UNDEFINED]

HistoryAtRest ==
    /\ indexFile = NoIndexFile
    /\ blobs = <<>>
    /\ capture = [p \in Procs |-> IdleCapture]
    /\ cleanup = IdleCleanup
    /\ loaded = NotLoaded
    /\ calls = [captures |-> 0, cleanups |-> 0]
    /\ returned = <<>>

InitCall ==
    /\ now = 1
    /\ insightsPc = "idle"
    /\ generatedAt = NULL
    /\ vehicles = Pending
    /\ alerts = Pending
    /\ insights = <<>>
    /\ PureAtRest
    /\ HistoryAtRest

InitJoin ==
    /\ vehicleFeed \in {Response(TRUE, TRUE, e) : e \in SeqsUpTo(JoinVehicles, MaxVehicles)}
    /\ alertsFeed \in {Response(TRUE, TRUE, e) : e \in SeqsUpTo(JoinAlerts, MaxAlerts)}

InitPeriod ==
    /\ vehicleFeed \in {Response(TRUE, TRUE, e) : e \in SeqsUpTo(PeriodVehicles, 1)}
    /\ alertsFeed \in {Response(TRUE, TRUE, e) : e \in SeqsUpTo(PeriodAlerts, MaxAlerts)}

InitShape ==
    /\ vehicleFeed \in Responses(ShapeVehicles, MaxVehicles)
    /\ alertsFeed \in Responses(ShapeAlerts, MaxAlerts)

InitInsights == InitCall /\ (InitJoin \/ InitPeriod \/ InitShape)

\* Vehicles and alerts that differ in route, timestamp, effect and period.
RouteVehicles ==
    {RawVehicle(1, 1, NULL, 1, 0, TRUE, TRUE, Num(40), Num(-3)),
     RawVehicle(2, 2, NULL, 1, 5, TRUE, TRUE, Num(40), Num(-3)),
     RawVehicle(3, 3, NULL, 2, NULL, TRUE, TRUE, Num(40), Num(-3)),
     RawVehicle(4, 1, NULL, 1, 3, TRUE, TRUE, Num(40), Num(-3))}

RouteAlerts ==
    {RawAlert(1, TRUE, "DELAY", <<[start |-> 0, end |-> NULL]>>,
              <<RawInformed(1, NULL, NULL), RawInformed(1, NULL, 7)>>),
     RawAlert(2, TRUE, "DETOUR", <<>>,
              <<RawInformed(3, NULL, NULL), RawInformed(1, NULL, NULL)>>),
     RawAlert(3, TRUE, NONE, <<[start |-> 2, end |-> 3]>>,
              <<RawInformed(2, NULL, NULL)>>),
     RawAlert(4, TRUE, "DELAY", <<[start |-> NULL, end |-> 0]>>,
              <<RawInformed(1, NULL, NULL)>>)}

InitRoutes ==
    /\ InitCall
    /\ vehicleFeed \in Responses(RouteVehicles, MaxVehicles)
    /\ alertsFeed \in Responses(RouteAlerts, MaxAlerts)

\* ------------------------------------------------- getInsights, step by step
\* const generatedAt = Math.floor(Date.now() / 1000); both fetches are issued.
GetInsights ==
    /\ insightsPc = "idle"
    /\ insightsPc' = "fetching"
    /\ generatedAt' = now
    /\ UNCHANGED <<now, vehicleFeed, alertsFeed, vehicles, alerts, insights>>
    /\ UNCHANGED <<pureVars, historyVars>>

\* The clock advances while the fetches are in flight.
Tick ==
    /\ insightsPc = "fetching"
    /\ now < MaxClock
    /\ now' = now + 1
    /\ UNCHANGED <<insightsVars, pureVars, historyVars>>

SettleVehicles ==
    /\ insightsPc = "fetching"
    /\ vehicles = Pending
    /\ vehicles' = getVehiclePositions(vehicleFeed)
    /\ UNCHANGED <<now, vehicleFeed, alertsFeed, insightsPc, generatedAt, alerts, insights>>
    /\ UNCHANGED <<pureVars, historyVars>>

SettleAlerts ==
    /\ insightsPc = "fetching"
    /\ alerts = Pending
    /\ alerts' = getAlerts(alertsFeed)
    /\ UNCHANGED <<now, vehicleFeed, alertsFeed, insightsPc, generatedAt, vehicles, insights>>
    /\ UNCHANGED <<pureVars, historyVars>>

\* await Promise.all([...]) rejects as soon as one of the fetches rejects.
RejectInsights ==
    /\ insightsPc = "fetching"
    /\ vehicles.state = "rejected" \/ alerts.state = "rejected"
    /\ insightsPc' = "rejected"
    /\ UNCHANGED <<now, vehicleFeed, alertsFeed, generatedAt, vehicles, alerts, insights>>
    /\ UNCHANGED <<pureVars, historyVars>>

ResolveInsights ==
    /\ insightsPc = "fetching"
    /\ vehicles.state = "fulfilled"
    /\ alerts.state = "fulfilled"
    /\ insights' = BuildInsights(vehicles.value, alerts.value, generatedAt)
    /\ insightsPc' = "fulfilled"
    /\ UNCHANGED <<now, vehicleFeed, alertsFeed, generatedAt, vehicles, alerts>>
    /\ UNCHANGED <<pureVars, historyVars>>

NextInsights ==
    \/ GetInsights
    \/ Tick
    \/ SettleVehicles
    \/ SettleAlerts
    \/ RejectInsights
    \/ ResolveInsights

SpecInsights == InitInsights /\ [][NextInsights]_vars

SpecRoutes == InitRoutes /\ [][NextInsights]_vars


\* --------------------------------------------- history: capture and cleanup
\* The instants at which the clock is read: the start of the run, then 20, 39
\* and 40 days later.
StartOfRun == 19675 * SecondsPerDay
ClockInstants == {StartOfRun + d * SecondsPerDay : d \in {0, 20, 39, 40}}

\* Math.random().toString(36).slice(2, 10)
RandomSuffixes == {"k3f9x2ab", "zz81m0qp"}

\* cleanupOldSnapshots(keepDays)
KeepDays == {20, 30}

\* Two states of the upstream feeds.
FeedVersions ==
    <<[vehicles |-> Response(TRUE, TRUE,
            <<RawVehicle(1, 1, 1, 1, NULL, TRUE, TRUE, Num(40), Num(-3))>>),
       alerts |-> Response(TRUE, TRUE,
            <<RawAlert(1, TRUE, "DELAY", <<[start |-> 1, end |-> NULL]>>,
                       <<RawInformed(1, NULL, NULL)>>)>>)],
      [vehicles |-> Response(TRUE, TRUE,
            <<RawVehicle(2, 2, NULL, 2, NULL, TRUE, TRUE, Str(41), Num(2)),
              RawVehicle(1, 1, 1, 1, NULL, TRUE, TRUE, Num(40), Num(-3))>>),
       alerts |-> Response(TRUE, TRUE, <<>>)]>>

\* The feed states a capture's own two fetches and the fetches of its
\* getInsights call see: the same one, or the feeds change in between.
FetchesSee == {[direct |-> 1, own |-> 1], [direct |-> 2, own |-> 1]}

\* What a capture of an older version left behind: a descriptor without id and
\* counts, and a snapshot file without id, vehicles and alerts.
LegacyDescriptor ==
    [id |-> UNDEFINED, timestamp |-> StartOfRun,
     filename |-> <<"snapshot-", ToString(StartOfRun), ".json">>,
     vehicleCount |-> NULL, alertCount |-> NULL]

LegacySnapshot ==
    [id |-> <<"undefined">>, timestamp |-> JsonNumber(StartOfRun),
     totals |-> StringifyTotals(BuildInsights(<<>>, <<>>, StartOfRun).totals),
     alertsByEffect |-> <<>>, alertsByCause |-> <<>>, vehiclesByStatus |-> <<>>,
     hasLists |-> FALSE, vehicles |-> <<>>, alerts |-> <<>>]

InsightsAtRest ==
    /\ vehicleFeed = Response(TRUE, TRUE, <<>>)
    /\ alertsFeed = Response(TRUE, TRUE, <<>>)
    /\ insightsPc = "idle"
    /\ generatedAt = NULL
    /\ vehicles = Pending
    /\ alerts = Pending
    /\ insights = <<>>

InitHistory ==
    /\ now = StartOfRun
    /\ InsightsAtRest
    /\ PureAtRest
    /\ capture = [p \in Procs |-> IdleCapture]
    /\ cleanup = IdleCleanup
    /\ loaded = NotLoaded
    /\ calls = [captures |-> 0, cleanups |-> 0]
    /\ returned = <<>>
    /\ \/ indexFile = NoIndexFile /\ blobs = <<>>
       \/ /\ indexFile = StringifyIndex(<<LegacyDescriptor>>)
          /\ blobs = WriteFile(<<>>, LegacyDescriptor.filename, LegacySnapshot)

\* Math.floor(Date.now() / 1000): an instant not before the last one read.
ClockReadings == {t \in ClockInstants : t >= now}

InProgress(c) == c.pc \notin {"idle", "done", "failed"}

\* A call that has returned stays "done", and one that has thrown "failed",
\* with its locals, until a step of any history operation follows.
Settled(c) == IF c.pc \in {"done", "failed"} THEN [pc |-> "idle"] ELSE c

\* No other capture and no cleanup is in progress beside capture p.
Quiet(p) == ~InProgress(cleanup) /\ \A q \in Procs \ {p} : ~InProgress(capture[q])

\* The other calls, after a step of capture p or of the cleanup.
OtherCaptures(p, mine) == [q \in Procs |-> IF q = p THEN mine ELSE Settled(capture[q])]
CleanupBeside == IF InProgress(cleanup) THEN [cleanup EXCEPT !.alone = FALSE]
                 ELSE Settled(cleanup)

\* captureSnapshot: the three fetches settle, storeSnapshot builds the
\* snapshot and
\*   await fs.promises.writeFile(filepath, JSON.stringify(snapshot, null, 2))
\* writes its file.
CaptureWriteSnapshot(p) ==
    /\ ~InProgress(capture[p])
    /\ calls.captures < MaxCaptures
    /\ \E see \in FetchesSee, random \in RandomSuffixes, timestamp \in ClockReadings :
          LET vs == getVehiclePositions(FeedVersions[see.direct].vehicles).value
              as == getAlerts(FeedVersions[see.direct].alerts).value
              ins == BuildInsights(getVehiclePositions(FeedVersions[see.own].vehicles).value,
                                   getAlerts(FeedVersions[see.own].alerts).value,
                                   timestamp)
              id == SnapshotId(timestamp, random)
              filename == SnapshotFilename(id)
              snapshot == HistorySnapshot(id, timestamp, ins, vs, as)
              overlaps == \E q \in Procs \ {p} : InProgress(capture[q])
              races == InProgress(cleanup)
          IN /\ capture' = [q \in Procs |->
                    IF q = p
                    THEN [pc |-> "loadIndex", insights |-> ins, vehicles |-> vs,
                          alerts |-> as, timestamp |-> timestamp, id |-> id,
                          filename |-> filename, index |-> <<>>, overlapped |-> overlaps,
                          alone |-> ~overlaps /\ ~races,
                          before |-> [index |-> indexFile, blobs |-> blobs]]
                    ELSE IF InProgress(capture[q])
                         THEN [capture[q] EXCEPT !.overlapped = TRUE, !.alone = FALSE]
                         ELSE Settled(capture[q])]
             /\ blobs' = WriteFile(blobs, filename, StringifySnapshot(snapshot))
             /\ now' = timestamp
    /\ calls' = [calls EXCEPT !.captures = @ + 1]
    /\ cleanup' = CleanupBeside
    /\ loaded' = NotLoaded
    /\ UNCHANGED <<insightsVars, pureVars, indexFile, returned>>

\* const index = await this.loadIndex()
CaptureLoadIndex(p) ==
    /\ capture[p].pc = "loadIndex"
    /\ capture' = OtherCaptures(p, [capture[p] EXCEPT !.pc = "writeIndex",
                                                      !.index = loadIndex(indexFile)])
    /\ cleanup' = CleanupBeside
    /\ loaded' = NotLoaded
    /\ UNCHANGED <<now, insightsVars, pureVars, indexFile, blobs, calls, returned>>

\* await fs.promises.writeFile(INDEX_FILE, JSON.stringify(newIndex, null, 2)); return id
CaptureWriteIndex(p) ==
    /\ capture[p].pc = "writeIndex"
    /\ LET c == capture[p]
           newIndex == Append(c.index,
                              Descriptor(c.id, c.timestamp, c.filename, c.vehicles, c.alerts))
       IN indexFile' = StringifyIndex(newIndex)
    /\ capture' = OtherCaptures(p, [capture[p] EXCEPT !.pc = "done"])
    /\ cleanup' = CleanupBeside
    /\ returned' = Append(returned, [id |-> capture[p].id,
                                     overlapped |-> capture[p].overlapped])
    /\ loaded' = NotLoaded
    /\ UNCHANGED <<now, insightsVars, pureVars, blobs, calls>>

\* The partition with the entry at the cutoff itself counted as old.
BeforeCutoffOrAt(d, cutoffTimestamp) == d.timestamp <= cutoffTimestamp

BeforeCutoff(d, cutoffTimestamp) == d.timestamp < cutoffTimestamp

\* cleanupOldSnapshots(keepDays): the cutoff is computed, the index is loaded
\* and split into toDelete and toKeep.
CleanupLoadIndex ==
    /\ ~InProgress(cleanup)
    /\ calls.cleanups < MaxCleanups
    /\ \E keepDays \in KeepDays, reading \in ClockReadings :
          LET cutoffTimestamp == reading - keepDays * SecondsPerDay
              index == loadIndex(indexFile)
              Old(d) == BeforeCutoff(d, cutoffTimestamp)
              Recent(d) == ~BeforeCutoff(d, cutoffTimestamp)
          IN /\ cleanup' = [pc |-> "delete", keepDays |-> keepDays,
                            cutoffTimestamp |-> cutoffTimestamp,
                            toDelete |-> Filter(index, Old),
                            toKeep |-> Filter(index, Recent),
                            deletedCount |-> 0,
                            before |-> [index |-> index, blobs |-> blobs],
                            alone |-> \A q \in Procs : ~InProgress(capture[q])]
             /\ now' = reading
    /\ calls' = [calls EXCEPT !.cleanups = @ + 1]
    /\ capture' = [q \in Procs |->
                      IF InProgress(capture[q]) THEN [capture[q] EXCEPT !.alone = FALSE]
                      ELSE Settled(capture[q])]
    /\ loaded' = NotLoaded
    /\ UNCHANGED <<insightsVars, pureVars, indexFile, blobs, returned>>

\* One round of the loop over toDelete: the file is unlinked if it exists.
CleanupDelete ==
    /\ cleanup.pc = "delete"
    /\ cleanup.toDelete # <<>>
    /\ LET entry == Head(cleanup.toDelete)
           there == entry.filename \in DOMAIN blobs
       IN /\ blobs' = IF there THEN Unlink(blobs, entry.filename) ELSE blobs
          /\ cleanup' = [cleanup EXCEPT
                 !.toDelete = Tail(@),
                 !.deletedCount = IF there THEN @ + 1 ELSE @]
    /\ capture' = [q \in Procs |-> Settled(capture[q])]
    /\ loaded' = NotLoaded
    /\ UNCHANGED <<now, insightsVars, pureVars, indexFile, calls, returned>>

\* await fs.promises.writeFile(INDEX_FILE, ...{ snapshots: toKeep }); return deletedCount
CleanupWriteIndex ==
    /\ cleanup.pc = "delete"
    /\ cleanup.toDelete = <<>>
    /\ indexFile' = StringifyIndex(cleanup.toKeep)
    /\ cleanup' = [cleanup EXCEPT !.pc = "done"]
    /\ capture' = [q \in Procs |-> Settled(capture[q])]
    /\ loaded' = NotLoaded
    /\ UNCHANGED <<now, insightsVars, pureVars, blobs, calls, returned>>

\* GET /history/snapshots/:id for an id a capture has returned, while no capture
\* or cleanup is in progress.
LoadSnapshotById ==
    /\ loaded = NotLoaded
    /\ ~InProgress(cleanup) /\ \A q \in Procs : ~InProgress(capture[q])
    /\ \E i \in DOMAIN returned :
          loaded' = [id |-> returned[i].id,
                     entry |-> loadSnapshotById(indexFile, blobs, returned[i].id)]
    /\ UNCHANGED <<now, insightsVars, pureVars, indexFile, blobs, capture, cleanup,
                   calls, returned>>

NextHistory ==
    \/ \E p \in Procs : CaptureWriteSnapshot(p)
    \/ \E p \in Procs : CaptureLoadIndex(p)
    \/ \E p \in Procs : CaptureWriteIndex(p)
    \/ CleanupLoadIndex
    \/ CleanupDelete
    \/ CleanupWriteIndex
    \/ LoadSnapshotById

SpecHistory == InitHistory /\ [][NextHistory]_vars

\* ------------------------------------------------- captures that fail
\* captureSnapshot: Promise.all rejects (a fetch fails, a feed does not
\* validate, getInsights throws); storeSnapshot is never called and the
\* error is thrown on to the caller.
CaptureFetchFails(p) ==
    /\ ~InProgress(capture[p])
    /\ calls.captures < MaxCaptures
    /\ capture' = OtherCaptures(p, [pc |-> "failed", step |-> "fetch",
                                     alone |-> Quiet(p),
                                     before |-> [index |-> indexFile, blobs |-> blobs]])
    /\ calls' = [calls EXCEPT !.captures = @ + 1]
    /\ cleanup' = CleanupBeside
    /\ loaded' = NotLoaded
    /\ UNCHANGED <<now, insightsVars, pureVars, indexFile, blobs, returned>>

\* storeSnapshot: the writeFile of the snapshot file rejects; the index is
\* not reached.
CaptureWriteSnapshotFails(p) ==
    /\ ~InProgress(capture[p])
    /\ calls.captures < MaxCaptures
    /\ \E random \in RandomSuffixes, timestamp \in ClockReadings :
          LET filename == SnapshotFilename(SnapshotId(timestamp, random))
          IN /\ blobs' \in WriteFileFails(blobs, filename)
             /\ now' = timestamp
    /\ capture' = OtherCaptures(p, [pc |-> "failed", step |-> "writeSnapshot",
                                     alone |-> Quiet(p),
                                     before |-> [index |-> indexFile, blobs |-> blobs]])
    /\ calls' = [calls EXCEPT !.captures = @ + 1]
    /\ cleanup' = CleanupBeside
    /\ loaded' = NotLoaded
    /\ UNCHANGED <<insightsVars, pureVars, indexFile, returned>>

\* storeSnapshot: the snapshot file is written and the index loaded; the
\* writeFile of index.json rejects.
CaptureWriteIndexFails(p) ==
    /\ capture[p].pc = "writeIndex"
    /\ indexFile' \in {indexFile, TruncatedFile}
    /\ capture' = OtherCaptures(p, [pc |-> "failed", step |-> "writeIndex",
                                     alone |-> capture[p].alone,
                                     before |-> capture[p].before])
    /\ cleanup' = CleanupBeside
    /\ loaded' = NotLoaded
    /\ UNCHANGED <<now, insightsVars, pureVars, blobs, calls, returned>>

NextCaptureFaults ==
    \/ \E p \in Procs : CaptureWriteSnapshot(p)
    \/ \E p \in Procs : CaptureLoadIndex(p)
    \/ \E p \in Procs : CaptureWriteIndex(p)
    \/ \E p \in Procs : CaptureFetchFails(p)
    \/ \E p \in Procs : CaptureWriteSnapshotFails(p)
    \/ \E p \in Procs : CaptureWriteIndexFails(p)
    \/ LoadSnapshotById

SpecCaptureFaults == InitHistory /\ [][NextCaptureFaults]_vars

\* ------------------------------------------------- index reads that fail
\* loadIndex() inside storeSnapshot: index.json exists but readFile rejects;
\* the error is caught and { snapshots: [] } is returned.
CaptureLoadIndexFails(p) ==
    /\ capture[p].pc = "loadIndex"
    /\ indexFile.exists
    /\ capture' = OtherCaptures(p, [capture[p] EXCEPT !.pc = "writeIndex", !.index = <<>>])
    /\ cleanup' = CleanupBeside
    /\ loaded' = NotLoaded
    /\ UNCHANGED <<now, insightsVars, pureVars, indexFile, blobs, calls, returned>>

\* Captures whose read of the index may fail and whose write of the index
\* may fail and leave it cut short.
NextIndexFaults ==
    \/ \E p \in Procs : CaptureWriteSnapshot(p)
    \/ \E p \in Procs : CaptureLoadIndex(p)
    \/ \E p \in Procs : CaptureLoadIndexFails(p)
    \/ \E p \in Procs : CaptureWriteIndex(p)
    \/ \E p \in Procs : CaptureWriteIndexFails(p)

SpecIndexFaults == InitHistory /\ [][NextIndexFaults]_vars

\* ------------------------------------------------- requests for entries
\* Ids a client may ask for: ids of captures of the first second, the id
\* derived from the older entry's filename, and strings that are no id.
RequestIds ==
    {SnapshotId(StartOfRun, r) : r \in RandomSuffixes}
    \cup {<<ToString(StartOfRun)>>, <<"k3f9x2ab">>, <<"nosuchid">>,
          <<ToString(StartOfRun), "-", "nosuchid">>}

Asked(id, listed) ==
    [id |-> id,
     listed |-> listed,
     index |-> loadIndex(indexFile),
     entry |-> loadSnapshotById(indexFile, blobs, id),
     response |-> getSnapshotById(indexFile, blobs, id, now)]

\* GET /history/snapshots/:id for any id, while no capture is in progress.
GetSnapshotById ==
    /\ loaded = NotLoaded
    /\ Quiet("none")
    /\ \E id \in RequestIds : loaded' = Asked(id, 0)
    /\ UNCHANGED <<now, insightsVars, pureVars, indexFile, blobs, capture, cleanup,
                   calls, returned>>

\* GET /history/snapshots, then GET /history/snapshots/:id for the id of
\* one of the entries listed.
GetListedSnapshot ==
    /\ loaded = NotLoaded
    /\ Quiet("none")
    /\ \E i \in DOMAIN getSnapshotList(indexFile, NULL, NULL) :
          loaded' = Asked(getSnapshotList(indexFile, NULL, NULL)[i].id, i)
    /\ UNCHANGED <<now, insightsVars, pureVars, indexFile, blobs, capture, cleanup,
                   calls, returned>>

NextLookup ==
    \/ \E p \in Procs : CaptureWriteSnapshot(p)
    \/ \E p \in Procs : CaptureLoadIndex(p)
    \/ \E p \in Procs : CaptureWriteIndex(p)
    \/ GetSnapshotById
    \/ GetListedSnapshot

SpecLookup == InitHistory /\ [][NextLookup]_vars

\* ------------------------------------------------- summary of the history
\* GET /history/summary, while no capture or cleanup is in progress.
GetHistorySummary ==
    /\ loaded = NotLoaded
    /\ Quiet("none")
    /\ loaded' = [id |-> <<"summary">>,
                  index |-> loadIndex(indexFile),
                  summary |-> getHistorySummary(indexFile, blobs)]
    /\ UNCHANGED <<now, insightsVars, pureVars, indexFile, blobs, capture, cleanup,
                   calls, returned>>

\* Captures, of which some fail to write their snapshot file, cleanups, and
\* requests for the summary.
NextSummary ==
    \/ \E p \in Procs : CaptureWriteSnapshot(p)
    \/ \E p \in Procs : CaptureLoadIndex(p)
    \/ \E p \in Procs : CaptureWriteIndex(p)
    \/ \E p \in Procs : CaptureWriteSnapshotFails(p)
    \/ CleanupLoadIndex
    \/ CleanupDelete
    \/ CleanupWriteIndex
    \/ GetHistorySummary

SpecSummary == InitHistory /\ [][NextSummary]_vars

\* ------------------------------------------------- pure helpers, evaluated
NotCalled == <<>>

\* Instants, in seconds, around the rounding boundaries of a minute, and the
\* pair 1000, 2800 that lies 1800 seconds apart.
DurationInstants == {0, 29, 30, 31, 89, 90, 1000, 2800}

\* Durations, in minutes, on both sides of every bucket boundary.
DurationMinutes == {NULL, 0, 29, 30, 59, 60, 119, 120, 239, 240, 479, 480, 481}

\* Nullable strings to group.
CountedValues == {NONE, "DELAY", "DETOUR"}

\* Two lists with the same elements, each as many times in both.
SameMultiset(v, w) ==
    /\ Len(v) = Len(w)
    /\ \A x \in Range(v) \cup Range(w) :
          Cardinality({i \in DOMAIN v : v[i] = x}) = Cardinality({i \in DOMAIN w : w[i] = x})

InitPure ==
    /\ now = 1
    /\ vehicleFeed = Response(TRUE, TRUE, <<>>)
    /\ alertsFeed = Response(TRUE, TRUE, <<>>)
    /\ insightsPc = "idle"
    /\ generatedAt = NULL
    /\ vehicles = Pending
    /\ alerts = Pending
    /\ insights = <<>>
    /\ HistoryAtRest
    /\ ret = NotCalled
    /\ args \in [fn : {"isActiveAt", "SnapshotAlertIsActive"},
                 start : {NULL} \cup 0..MaxTime,
                 end : {NULL} \cup 0..MaxTime,
                 nowSeconds : 0..MaxTime]
             \cup [fn : {"computeDurationMinutes", "alertDurationBucket"},
                   start : {NULL} \cup DurationInstants,
                   end : {NULL} \cup DurationInstants,
                   nowSeconds : DurationInstants]
             \cup [fn : {"getDurationBucket"}, minutes : DurationMinutes]
             \cup [fn : {"countByKey"}, values : SeqsUpTo(CountedValues, MaxValues)]
             \cup {[fn |-> "countByKeyReordered", values |-> v, reordered |-> w] :
                      <<v, w>> \in {pair \in SeqsUpTo(CountedValues, MaxValues)
                                              \X SeqsUpTo(CountedValues, MaxValues) :
                                        SameMultiset(pair[1], pair[2])}}

CallIsActiveAt ==
    /\ args.fn = "isActiveAt"
    /\ ret = NotCalled
    /\ ret' = <<isActiveAt(args.start, args.end, args.nowSeconds)>>
    /\ UNCHANGED <<now, args, insightsVars, historyVars>>

CallSnapshotAlertIsActive ==
    /\ args.fn = "SnapshotAlertIsActive"
    /\ ret = NotCalled
    /\ ret' = <<SnapshotAlertIsActive(args.start, args.end, args.nowSeconds)>>
    /\ UNCHANGED <<now, args, insightsVars, historyVars>>

CallComputeDurationMinutes ==
    /\ args.fn = "computeDurationMinutes"
    /\ ret = NotCalled
    /\ ret' = <<computeDurationMinutes(args.start, args.end, args.nowSeconds)>>
    /\ UNCHANGED <<now, args, insightsVars, historyVars>>

\* durations.map(getDurationBucket) for one alert.
CallAlertDurationBucket ==
    /\ args.fn = "alertDurationBucket"
    /\ ret = NotCalled
    /\ ret' = <<getDurationBucket(
                   computeDurationMinutes(args.start, args.end, args.nowSeconds))>>
    /\ UNCHANGED <<now, args, insightsVars, historyVars>>

CallGetDurationBucket ==
    /\ args.fn = "getDurationBucket"
    /\ ret = NotCalled
    /\ ret' = <<getDurationBucket(args.minutes)>>
    /\ UNCHANGED <<now, args, insightsVars, historyVars>>

CallCountByKey ==
    /\ args.fn = "countByKey"
    /\ ret = NotCalled
    /\ ret' = <<countByKey(args.values)>>
    /\ UNCHANGED <<now, args, insightsVars, historyVars>>

\* countByKey applied to a list and to a reordering of it.
CallCountByKeyReordered ==
    /\ args.fn = "countByKeyReordered"
    /\ ret = NotCalled
    /\ ret' = <<countByKey(args.values), countByKey(args.reordered)>>
    /\ UNCHANGED <<now, args, insightsVars, historyVars>>

NextPure ==
    \/ CallIsActiveAt
    \/ CallSnapshotAlertIsActive
    \/ CallComputeDurationMinutes
    \/ CallAlertDurationBucket
    \/ CallGetDurationBucket
    \/ CallCountByKey
    \/ CallCountByKeyReordered

SpecPure == InitPure /\ [][NextPure]_vars

\* ------------------------------------------------------------------ claims
\* The alerts and vehicles a resolved getInsights call computed from.
As == alerts.value
Vs == vehicles.value

NamesNoTripOrRoute(a) ==
    \A k \in DOMAIN a.informedEntities :
        a.informedEntities[k].tripId = NULL /\ a.informedEntities[k].routeId = NULL

ExpectedMatch(a) ==
    {Vs[i].id : i \in {j \in DOMAIN Vs :
        /\ Vs[j].tripId # NULL
        /\ \E k \in DOMAIN a.informedEntities : a.informedEntities[k].tripId = Vs[j].tripId}}
    \cup
    {Vs[i].id : i \in {j \in DOMAIN Vs :
        /\ Vs[j].routeId # NULL
        /\ \E k \in DOMAIN a.informedEntities : a.informedEntities[k].routeId = Vs[j].routeId}}

\* C1: in a snapshot produced by getInsights there is one correlation per alert,
\* and the correlation of alert A has matchedVehicleIds equal, as a set, to the
\* ids of the vehicles whose tripId is one of A's informed trip ids united with
\* the ids of the vehicles whose routeId is one of A's informed route ids; an
\* alert that names no trip and no route has an empty match set.
C1_CorrelationCompleteness ==
    insightsPc = "fulfilled" =>
        /\ Len(insights.correlations) = Len(As)
        /\ \E pi \in Permutations(DOMAIN As) :
              \A i \in DOMAIN As :
                  LET c == insights.correlations[pi[i]]
                  IN /\ c.alertId = As[i].id
                     /\ Range(c.matchedVehicleIds) = ExpectedMatch(As[i])
                     /\ NamesNoTripOrRoute(As[i]) => c.matchedVehicleIds = <<>>

C1_Witness ==
    /\ insightsPc = "fulfilled"
    /\ \E i, j \in DOMAIN insights.correlations :
          /\ Len(insights.correlations[i].matchedVehicleIds) = 2
          /\ insights.correlations[i].matchedTripIds # <<>>
          /\ insights.correlations[i].matchedRouteIds # <<>>
          /\ Len(insights.correlations[j].matchedVehicleIds) = 1
    /\ Len(Vs) = 2

\* C3: every activity flag of a snapshot is evaluated at the instant stored in
\* generatedAt, the instant at which getInsights was called: each alert's
\* correlation and timeline item carry isActiveAt(start, end, generatedAt), each
\* route summary's activeAlertCount counts the route's alerts active at
\* generatedAt, and totals.activeAlerts counts the alerts active at generatedAt.
C3_SingleReferenceInstant ==
    insightsPc = "fulfilled" =>
        LET at == insights.generatedAt
            Active(a) == isActiveAt(a.start, a.end, at)
        IN /\ at = generatedAt
           /\ \E pi \in Permutations(DOMAIN As) :
                 \A i \in DOMAIN As :
                     LET c == insights.correlations[pi[i]]
                     IN /\ c.alertId = As[i].id /\ c.start = As[i].start
                        /\ c.end = As[i].end /\ c.isActiveNow = Active(As[i])
           /\ \E pi \in Permutations(DOMAIN As) :
                 \A i \in DOMAIN As :
                     LET t == insights.alertTimeline[pi[i]]
                     IN /\ t.alertId = As[i].id /\ t.start = As[i].start
                        /\ t.end = As[i].end /\ t.isActiveNow = Active(As[i])
           /\ \A r \in DOMAIN insights.routeSummaries :
                 insights.routeSummaries[r].activeAlertCount =
                     Cardinality({i \in DOMAIN As :
                         /\ InformsRoute(As[i], insights.routeSummaries[r].routeId)
                         /\ Active(As[i])})
           /\ insights.totals.activeAlerts = Cardinality({i \in DOMAIN As : Active(As[i])})

\* The clock has moved on since the call, and an alert active at generatedAt is
\* no longer active at the instant the snapshot is assembled.
C3_Witness ==
    /\ insightsPc = "fulfilled"
    /\ now > insights.generatedAt
    /\ \E i \in DOMAIN As :
          /\ isActiveAt(As[i].start, As[i].end, insights.generatedAt)
          /\ ~isActiveAt(As[i].start, As[i].end, now)
    /\ \E r \in DOMAIN insights.routeSummaries :
          insights.routeSummaries[r].activeAlertCount = 1

\* C4: isActiveAt(start, end, T) is true exactly when (start is null or
\* start <= T) and (end is null or end >= T).
C4_ActiveAtInstant ==
    (args.fn = "isActiveAt" /\ ret # NotCalled) =>
        (ret[1] = TRUE <=>
            /\ args.start = NULL \/ args.start <= args.nowSeconds
            /\ args.end = NULL \/ args.end >= args.nowSeconds)

\* An alert whose end is the instant asked about is still active.
C4_Witness ==
    /\ args.fn = "isActiveAt"
    /\ ret = <<TRUE>>
    /\ args.end = args.nowSeconds
    /\ args.start = NULL

\* An entity that per-entity validation lets through.
ValidVehicleEntity(e) == e.id >= 1 /\ e.hasVehicle /\ e.hasPosition /\ PositionSchema(e.position)
ValidAlertEntity(e) == e.id >= 1 /\ e.hasAlert

\* C9: for a feed whose envelope is valid, an entity that fails per-entity
\* validation is omitted, every valid entity is returned, and the fetch does
\* not fail.
C9_InvalidEntityDropped ==
    /\ (vehicles # Pending /\ vehicleFeed.ok /\ vehicleFeed.envelope) =>
          vehicles = Fulfilled(Map(Filter(vehicleFeed.entity, ValidVehicleEntity), VehicleDto))
    /\ (alerts # Pending /\ alertsFeed.ok /\ alertsFeed.envelope) =>
          alerts = Fulfilled(Map(Filter(alertsFeed.entity, ValidAlertEntity), AlertDto))

\* C10: every record getVehiclePositions returns has latitude in [-90, 90] and
\* longitude in [-180, 180]; the records are as many as the feed entities that
\* carry a position, and each comes from such an entity.
C10_ReturnedPositionsInRange ==
    vehicles.state = "fulfilled" =>
        LET withPosition == {i \in DOMAIN vehicleFeed.entity :
                                vehicleFeed.entity[i].hasVehicle
                                /\ vehicleFeed.entity[i].hasPosition}
        IN /\ \A k \in DOMAIN Vs :
                 /\ Vs[k].latitude >= -90 /\ Vs[k].latitude <= 90
                 /\ Vs[k].longitude >= -180 /\ Vs[k].longitude <= 180
                 /\ \E i \in withPosition :
                       Vs[k].id = (IF vehicleFeed.entity[i].vehicleId # NULL
                                   THEN vehicleFeed.entity[i].vehicleId
                                   ELSE vehicleFeed.entity[i].id)
           /\ Len(Vs) = Cardinality(withPosition)

\* A feed with an entity on the boundary of the ranges and one without position.
C10_Witness ==
    /\ vehicles.state = "fulfilled"
    /\ \E k \in DOMAIN Vs : Vs[k].latitude = -90 /\ Vs[k].longitude = 180
    /\ \E i \in DOMAIN vehicleFeed.entity : ~vehicleFeed.entity[i].hasPosition

\* ------------------------------------------------------ claims, history
\* No capture and no cleanup is between its first and its last step.
Quiescent == ~InProgress(cleanup) /\ \A q \in Procs : ~InProgress(capture[q])

IndexIds == {loadIndex(indexFile)[i].id : i \in DOMAIN loadIndex(indexFile)}

\* C2: when two captures overlapped and both returned, and no cleanup ran,
\* the index holds a descriptor for each of the two returned ids.
C2_NoLostIndexEntry ==
    (Quiescent /\ calls.cleanups = 0) =>
        \A i \in DOMAIN returned :
            returned[i].overlapped => returned[i].id \in IndexIds

\* The capture that has just returned and that the load asked for.
RoundTrip(p) ==
    /\ capture[p].pc = "done"
    /\ capture[p].alone
    /\ loaded # NotLoaded
    /\ loaded.id = capture[p].id

\* C5: after storeSnapshot(insights, vehicles, alerts) ran alone and returned
\* id, with nothing else run since, loadSnapshotById(id) returns an entry
\* with that id, with insights.totals, and with the reduced projections of the
\* vehicles and alerts passed, in the same order.
C5_RoundTrip ==
    \A p \in Procs :
        RoundTrip(p) =>
            LET c == capture[p]
                VehicleKept(v) ==
                    [id |-> v.id, label |-> v.label, routeId |-> v.routeId,
                     tripId |-> v.tripId, latitude |-> v.latitude,
                     longitude |-> v.longitude, currentStatus |-> v.currentStatus]
                AlertKept(a) ==
                    [id |-> a.id, header |-> a.header, effect |-> a.effect,
                     cause |-> a.cause, start |-> a.start, end |-> a.end]
            IN /\ loaded.entry.found
               /\ loaded.entry.snapshot.id = c.id
               /\ loaded.entry.snapshot.totals = c.insights.totals
               /\ loaded.entry.snapshot.vehicles = Map(c.vehicles, VehicleKept)
               /\ loaded.entry.snapshot.alerts = Map(c.alerts, AlertKept)

\* The store held an older entry of the same second, and two vehicles were
\* captured.
C5_Witness ==
    \E p \in Procs :
        /\ RoundTrip(p)
        /\ loaded.entry.found
        /\ Len(loaded.entry.snapshot.vehicles) = 2
        /\ Len(loadIndex(indexFile)) = 2
        /\ loadIndex(indexFile)[1].timestamp = capture[p].timestamp

\* A cleanup that ran from its first to its last step with no capture in
\* progress has returned.
CleanedAlone == cleanup.pc = "done" /\ cleanup.alone

C7_ReturnsRemovedCount ==
    CleanedAlone =>
        cleanup.deletedCount =
            Len(cleanup.before.index) - Len(loadIndex(indexFile))

\* C8: the ids storeSnapshot has returned are pairwise distinct.
C8_ReturnedIdsDistinct ==
    \A i, j \in DOMAIN returned :
        i # j => returned[i].id # returned[j].id

\* C11: a capture that failed at any step, with nothing else in progress
\* beside it, leaves the persisted history as it was before the capture
\* started: the index is unchanged and no new snapshot file exists.
C11_FailedCaptureLeavesNoTrace ==
    \A p \in Procs :
        (capture[p].pc = "failed" /\ capture[p].alone) =>
            /\ indexFile = capture[p].before.index
            /\ blobs = capture[p].before.blobs

\* The id is the id of an index descriptor, or the filename-derived id of a
\* descriptor without id.
KnownId(index, id) ==
    \E i \in DOMAIN index :
        \/ index[i].id # UNDEFINED /\ index[i].id = id
        \/ index[i].id = UNDEFINED /\ IdFromFilename(index[i].filename) = id

\* C12: for an id that is neither the id of an index descriptor nor the
\* filename-derived id of a legacy descriptor, loadSnapshotById returns null
\* and GET /history/snapshots/:id answers NotFound; no entry is returned.
C12_UnknownIdNotFound ==
    (loaded # NotLoaded /\ ~KnownId(loaded.index, loaded.id)) =>
        /\ loaded.entry = NotFound
        /\ loaded.response.status = 404

\* The descriptor whose listed id was asked for.
Listed == loaded.index[loaded.listed]

C14_SnapshotIsActiveAgrees ==
    (args.fn = "SnapshotAlertIsActive" /\ ret # NotCalled) =>
        (ret[1] = TRUE <=>
            /\ args.start = NULL \/ args.start <= args.nowSeconds
            /\ args.end = NULL \/ args.end >= args.nowSeconds)

\* The routes named by a vehicle or by an alert's informed entity.
Routes ==
    {Vs[i].routeId : i \in {j \in DOMAIN Vs : Vs[j].routeId # NULL}}
    \cup UNION {{As[i].informedEntities[k].routeId :
                    k \in {l \in DOMAIN As[i].informedEntities :
                              As[i].informedEntities[l].routeId # NULL}} :
                 i \in DOMAIN As}

AlertsOn(routeId) ==
    {i \in DOMAIN As :
        \E k \in DOMAIN As[i].informedEntities : As[i].informedEntities[k].routeId = routeId}

\* C15: routeSummaries has exactly one entry per route id named by a vehicle
\* or by an informed entity; its vehicleCount is the number of distinct
\* vehicle ids on the route, alertCount the number of alerts informing the
\* route (each once), activeAlertCount the number of those active at
\* generatedAt, effects the duplicate-free set of their non-null effects; the
\* list is in non-increasing alertCount order.
C15_RouteSummaries ==
    insightsPc = "fulfilled" =>
        LET rs == insights.routeSummaries
        IN /\ Len(rs) = Cardinality(Routes)
           /\ {rs[i].routeId : i \in DOMAIN rs} = Routes
           /\ \A i \in DOMAIN rs :
                 LET r == rs[i].routeId
                 IN /\ rs[i].vehicleCount =
                          Cardinality({Vs[j].id : j \in {l \in DOMAIN Vs : Vs[l].routeId = r}})
                    /\ rs[i].alertCount = Cardinality(AlertsOn(r))
                    /\ rs[i].activeAlertCount =
                          Cardinality({j \in AlertsOn(r) :
                              isActiveAt(As[j].start, As[j].end, insights.generatedAt)})
                    /\ Range(rs[i].effects) =
                          {As[j].effect : j \in {l \in AlertsOn(r) : As[l].effect # NONE}}
                    /\ Len(rs[i].effects) = Cardinality(Range(rs[i].effects))
           /\ \A i, j \in DOMAIN rs : i < j => rs[i].alertCount >= rs[j].alertCount

\* A route only alerts name, a route with two alerts of the same effect, one
\* of which names it twice, and a vehicle id seen twice on a route.
C15_Witness ==
    /\ insightsPc = "fulfilled"
    /\ Len(Vs) = 2 /\ Vs[1].id = Vs[2].id
    /\ \E i \in DOMAIN insights.routeSummaries :
          /\ insights.routeSummaries[i].alertCount = 2
          /\ insights.routeSummaries[i].effects = <<"DELAY">>
          /\ insights.routeSummaries[i].vehicleCount = 1
          /\ insights.routeSummaries[i].activeAlertCount = 1

\* C16: every route summary's lastVehicleUpdate is the maximum timestamp of
\* the vehicles on the route that carry a timestamp, 0 included, and null
\* only when no vehicle on the route carries one.
C16_LastVehicleUpdate ==
    insightsPc = "fulfilled" =>
        \A i \in DOMAIN insights.routeSummaries :
            LET r == insights.routeSummaries[i].routeId
                stamps == {Vs[j].timestamp :
                              j \in {l \in DOMAIN Vs : Vs[l].routeId = r /\ Vs[l].timestamp # NULL}}
            IN insights.routeSummaries[i].lastVehicleUpdate =
                  (IF stamps = {} THEN NULL
                   ELSE CHOOSE t \in stamps : \A u \in stamps : t >= u)

\* C17: totals.vehiclesMatched is the size of the union of the correlations'
\* matchedVehicleIds, totals.alertsWithMatches the number of correlations
\* with matchedVehicleCount > 0, totals.uniqueRoutes the number of route
\* summaries and totals.routesWithAlerts the number of route summaries with
\* alertCount > 0.
C17_DerivedTotals ==
    insightsPc = "fulfilled" =>
        LET cs == insights.correlations
            rs == insights.routeSummaries
        IN /\ insights.totals.vehiclesMatched =
                 Cardinality(UNION {Range(cs[i].matchedVehicleIds) : i \in DOMAIN cs})
           /\ insights.totals.alertsWithMatches =
                 Cardinality({i \in DOMAIN cs : cs[i].matchedVehicleCount > 0})
           /\ insights.totals.uniqueRoutes = Len(rs)
           /\ insights.totals.routesWithAlerts =
                 Cardinality({i \in DOMAIN rs : rs[i].alertCount > 0})

\* One vehicle is matched by two alerts, and a route has no alert.
C17_Witness ==
    /\ insightsPc = "fulfilled"
    /\ insights.totals.vehiclesMatched = 1
    /\ insights.totals.alertsWithMatches = 2
    /\ insights.totals.uniqueRoutes > insights.totals.routesWithAlerts
    /\ insights.totals.routesWithAlerts > 0

\* C18: computeDurationMinutes(start, end, now) is null when start is null,
\* null when (end ?? now) - start <= 0, and otherwise (end ?? now) - start
\* divided by 60 and rounded to the nearest integer, halves up.
C18_DurationMinutes ==
    (args.fn = "computeDurationMinutes" /\ ret # NotCalled) =>
        LET effectiveEnd == IF args.end = NULL THEN args.nowSeconds ELSE args.end
            elapsed == effectiveEnd - args.start
        IN IF args.start = NULL \/ elapsed <= 0 THEN ret[1] = NULL
           ELSE /\ ret[1] # NULL
                /\ 2 * elapsed >= 120 * ret[1] - 60
                /\ 2 * elapsed < 120 * ret[1] + 60

\* An alert without end, 90 seconds old at the reference instant: 1.5 minutes
\* round to 2.
C18_Witness ==
    /\ args.fn = "computeDurationMinutes"
    /\ args.start = 0 /\ args.end = NULL /\ args.nowSeconds = 90
    /\ ret = <<2>>

\* C19: getDurationBucket maps null to "Unknown" and a duration m to the one
\* label of its half-open interval: [.., 30) "< 30min", [30, 60) "30-60min",
\* [60, 120) "1-2h", [120, 240) "2-4h", [240, 480) "4-8h", [480, ..) "> 8h";
\* an alert lasting exactly 1800 seconds is bucketed "30-60min".
C19_DurationBucket ==
    /\ (args.fn = "getDurationBucket" /\ ret # NotCalled) =>
          LET m == args.minutes
          IN /\ ret[1] = "Unknown" <=> m = NULL
             /\ ret[1] = "< 30min" <=> (m # NULL /\ m < 30)
             /\ ret[1] = "30-60min" <=> (30 <= m /\ m < 60)
             /\ ret[1] = "1-2h" <=> (60 <= m /\ m < 120)
             /\ ret[1] = "2-4h" <=> (120 <= m /\ m < 240)
             /\ ret[1] = "4-8h" <=> (240 <= m /\ m < 480)
             /\ ret[1] = "> 8h" <=> m >= 480
    /\ (/\ args.fn = "alertDurationBucket" /\ ret # NotCalled
        /\ args.start # NULL /\ args.end # NULL /\ args.end - args.start = 1800) =>
          ret[1] = "30-60min"

C19_Witness ==
    /\ args.fn = "alertDurationBucket"
    /\ args.start = 1000 /\ args.end = 2800
    /\ ret = <<"30-60min">>

\* C20: countByKey returns one entry per distinct key of its input with null
\* replaced by "UNKNOWN"; each count is the number of occurrences of the key,
\* so it is at least 1 and the counts sum to the input length; the entries
\* are in non-increasing order of count.
C20_CountByKey ==
    (args.fn = "countByKey" /\ ret # NotCalled) =>
        LET out == ret[1]
            KeyAt(i) == IF args.values[i] = NONE THEN "UNKNOWN" ELSE args.values[i]
            Occurrences(key) == {i \in DOMAIN args.values : KeyAt(i) = key}
        IN /\ {out[i].key : i \in DOMAIN out} = {KeyAt(i) : i \in DOMAIN args.values}
           /\ \A i, j \in DOMAIN out : i # j => out[i].key # out[j].key
           /\ \A i \in DOMAIN out :
                 /\ out[i].count = Cardinality(Occurrences(out[i].key))
                 /\ out[i].count >= 1
           /\ Cardinality(UNION {Occurrences(out[i].key) : i \in DOMAIN out})
                 = Len(args.values)
           /\ \A i, j \in DOMAIN out : i < j => out[i].count >= out[j].count

\* The key seen first is the rarer one, and a null is among the values.
C20_Witness ==
    /\ args.fn = "countByKey"
    /\ args.values = <<NONE, "DELAY", "DELAY">>
    /\ ret = <<(<<[key |-> "DELAY", count |-> 2], [key |-> "UNKNOWN", count |-> 1]>>)>>

\* C21: for two input lists that are permutations of each other, countByKey
\* returns the same set of (key, count) pairs and the same sequence of counts;
\* only the order of entries with equal counts may differ.
C21_CountByKeyReorderInvariant ==
    (args.fn = "countByKeyReordered" /\ ret # NotCalled) =>
        LET a == ret[1]
            b == ret[2]
        IN /\ Range(a) = Range(b)
           /\ Len(a) = Len(b)
           /\ \A i \in DOMAIN a : a[i].count = b[i].count
           /\ \A i \in DOMAIN a : a[i] # b[i] =>
                 \E j \in DOMAIN b : j # i /\ b[j] = a[i] /\ b[j].count = b[i].count

\* Three keys seen once each, in two orders: the entries are the same, the
\* counts are 1, 1, 1 in both, and the ties are broken differently.
C21_Witness ==
    /\ args.fn = "countByKeyReordered"
    /\ args.values = <<NONE, "DELAY", "DETOUR">>
    /\ args.reordered = <<"DETOUR", "DELAY", NONE>>
    /\ Len(ret) = 2
    /\ ret[1] # ret[2]
    /\ Range(ret[1]) = Range(ret[2])

\* A response that is not 2xx, or whose body is not the feed envelope.
HardFailure(response) == ~response.ok \/ ~response.envelope

\* C22: getVehiclePositions and getAlerts throw on a non-2xx response and on
\* a body that does not decode as the envelope; getInsights resolves with a
\* snapshot only if both fetches succeeded, and once either has failed it
\* never resolves and no snapshot, partial or whole, exists.
C22_FetchFailureIsTotal ==
    /\ (vehicles # Pending /\ HardFailure(vehicleFeed)) => vehicles = Rejected
    /\ (alerts # Pending /\ HardFailure(alertsFeed)) => alerts = Rejected
    /\ insightsPc = "fulfilled" =>
          vehicles.state = "fulfilled" /\ alerts.state = "fulfilled"
    /\ insights # <<>> => insightsPc = "fulfilled"
    /\ (vehicles = Rejected \/ alerts = Rejected) =>
          insightsPc \in {"fetching", "rejected"} /\ insights = <<>>

\* The vehicle feed answered with a body that is not an envelope, the alerts
\* feed delivered an alert, and getInsights has thrown.
C22_Witness ==
    /\ insightsPc = "rejected"
    /\ vehicleFeed.ok /\ ~vehicleFeed.envelope
    /\ vehicles = Rejected
    /\ alerts.state = "fulfilled" /\ Len(alerts.value) = 1
    /\ insights = <<>>

\* The summary GET /history/summary has answered with.
Summarised == loaded # NotLoaded /\ loaded.id = <<"summary">>

\* The descriptors whose file is there and can be parsed.
Readable(index) ==
    {i \in DOMAIN index :
        index[i].filename \in DOMAIN blobs /\ Parses(blobs[index[i].filename])}

\* C23: getHistorySummary does not fail when the file of a sampled entry is
\* missing or unreadable: such an entry adds nothing to uniqueVehicleIds and
\* uniqueAlertIds, which count the ids in the readable files, while
\* totalSnapshots, totalVehicleRecords and totalAlertRecords are taken from
\* every descriptor of the index, a descriptor without counts adding 0.
C23_SummarySkipsUnreadable ==
    Summarised =>
        LET index == loaded.index
            sum == loaded.summary
            Counted(field) ==
                UNION {{<<i, n>> : n \in 1..field[i]} :
                          i \in {j \in DOMAIN index : field[j] # NULL}}
            StoredIds(list) ==
                UNION {{ParseNumber(blobs[index[i].filename][list][k].id) :
                          k \in DOMAIN blobs[index[i].filename][list]} :
                       i \in Readable(index)}
        IN /\ ~sum.failed
           /\ sum.totalSnapshots = Len(index)
           /\ sum.totalVehicleRecords =
                 Cardinality(Counted([i \in DOMAIN index |-> index[i].vehicleCount]))
           /\ sum.totalAlertRecords =
                 Cardinality(Counted([i \in DOMAIN index |-> index[i].alertCount]))
           /\ sum.uniqueVehicleIds = Cardinality(StoredIds("vehicles"))
           /\ sum.uniqueAlertIds = Cardinality(StoredIds("alerts"))

\* The index holds a descriptor without counts whose file is gone and a
\* capture's descriptor whose file holds two vehicles.
C23_Witness ==
    /\ Summarised
    /\ Len(loaded.index) = 2
    /\ loaded.index[1].vehicleCount = NULL
    /\ loaded.index[1].filename \notin DOMAIN blobs
    /\ loaded.summary.totalVehicleRecords = 2
    /\ loaded.summary.uniqueVehicleIds = 2

\* C24: the correlations are one per alert, in non-increasing
\* matchedVehicleCount order; each matchedVehicleIds is strictly ascending
\* (sorted, free of duplicates) and matchedVehicleCount is its length, also
\* when a vehicle is reached through a trip id and a route id and when
\* several feed records carry the same vehicle id.
C24_CorrelationsOrdered ==
    insightsPc = "fulfilled" =>
        LET cs == insights.correlations
        IN /\ Len(cs) = Len(As)
           /\ \E pi \in Permutations(DOMAIN As) :
                 \A i \in DOMAIN As :
                     /\ cs[pi[i]].alertId = As[i].id
                     /\ cs[pi[i]].matchedTripIds = SortedIds(InformedTripIds(As[i]))
                     /\ cs[pi[i]].matchedRouteIds = SortedIds(InformedRouteIds(As[i]))
           /\ \A i, j \in DOMAIN cs :
                 i < j => cs[i].matchedVehicleCount >= cs[j].matchedVehicleCount
           /\ \A i \in DOMAIN cs :
                 /\ \A k, l \in DOMAIN cs[i].matchedVehicleIds :
                       k < l => cs[i].matchedVehicleIds[k] < cs[i].matchedVehicleIds[l]
                 /\ cs[i].matchedVehicleCount = Len(cs[i].matchedVehicleIds)

\* Two feed records carry the same vehicle id, the second alert reaches that
\* vehicle through a trip and through a route, and the first alert matches
\* nothing: the correlations are in the opposite order of the alerts.
C24_Witness ==
    /\ insightsPc = "fulfilled"
    /\ Len(Vs) = 2 /\ Vs[1].id = Vs[2].id
    /\ Len(As) = 2 /\ As[1].informedEntities = <<>>
    /\ Vs[1].tripId \in InformedTripIds(As[2])
    /\ Vs[1].routeId \in InformedRouteIds(As[2])
    /\ insights.correlations[1].matchedVehicleIds = <<Vs[1].id>>
    /\ insights.correlations[2].matchedVehicleCount = 0

\* C25: alertTimeline has one entry per alert and is in non-increasing order
\* of start with a null start ranked as 0, so an alert without start comes
\* after every alert with a positive start; each entry's durationMinutes is
\* computeDurationMinutes(start, end, generatedAt).
C25_TimelineOrdered ==
    insightsPc = "fulfilled" =>
        LET tl == insights.alertTimeline
            Rank(t) == IF t.start = NULL THEN 0 ELSE t.start
        IN /\ Len(tl) = Len(As)
           /\ \E pi \in Permutations(DOMAIN As) :
                 \A i \in DOMAIN As :
                     /\ tl[pi[i]].alertId = As[i].id
                     /\ tl[pi[i]].start = As[i].start
                     /\ tl[pi[i]].end = As[i].end
           /\ \A i, j \in DOMAIN tl : i < j => Rank(tl[i]) >= Rank(tl[j])
           /\ \A i, j \in DOMAIN tl :
                 (tl[i].start = NULL /\ tl[j].start # NULL /\ tl[j].start > 0) => j < i
           /\ \A i \in DOMAIN tl :
                 tl[i].durationMinutes =
                     computeDurationMinutes(tl[i].start, tl[i].end, insights.generatedAt)

\* The feed lists an alert without start before one that started at 2: the
\* timeline has them in the other order, and the started alert has a duration.
C25_Witness ==
    /\ insightsPc = "fulfilled"
    /\ Len(As) = 2
    /\ As[1].start = NULL /\ As[2].start = 2
    /\ insights.alertTimeline[1].start = 2
    /\ insights.alertTimeline[2].start = NULL
    /\ insights.alertTimeline[1].durationMinutes # NULL
    /\ insights.alertTimeline[2].durationMinutes = NULL

\* The descriptors an index file holds: those written in it, whether or not
\* a read of the file succeeds; none when the file is absent or cut short.
Held(file) == IF file.exists /\ Parses(file) THEN Map(file.snapshots, ParseDescriptor) ELSE <<>>

\* The step in which storeSnapshot of capture p writes the index and returns.
Stores(p) == capture[p].pc = "writeIndex" /\ capture'[p].pc = "done"

\* C26: every successful storeSnapshot leaves the index equal to its previous
\* contents followed by one new descriptor {id, timestamp, filename,
\* vehicleCount, alertCount} of the new entry; no earlier descriptor is
\* removed, moved or altered, whatever the read of the index file gave.
C26_IndexAppendOnly ==
    [][\A p \in Procs :
          Stores(p) =>
              Held(indexFile') =
                  Append(Held(indexFile),
                         [id |-> capture[p].id,
                          timestamp |-> capture[p].timestamp,
                          filename |-> SnapshotFilename(capture[p].id),
                          vehicleCount |-> Len(capture[p].vehicles),
                          alertCount |-> Len(capture[p].alerts)])]_vars

\* The step in which cleanupOldSnapshots writes the index and returns.
CleanupReturns == cleanup.pc = "delete" /\ cleanup'.pc = "done"

\* The descriptors captures have added to the index since the cleanup in
\* progress read it: the entries of captures that completed meanwhile.
StoredMeanwhile ==
    {d \in Range(Held(indexFile)) : d \notin Range(cleanup.before.index)}

\* C27: when a capture completes while a cleanup is in progress, then once
\* both have finished the captured entry, whose timestamp is at or after the
\* cutoff, is in the index and its file exists: the cleanup's rewrite of the
\* index keeps every such entry.
C27_CaptureSurvivesCleanup ==
    [][CleanupReturns =>
          \A d \in StoredMeanwhile :
              d.timestamp >= cleanup.cutoffTimestamp =>
                  /\ d \in Range(Held(indexFile'))
                  /\ d.filename \in DOMAIN blobs']_vars

\* C28: in every state with no capture and no cleanup in progress, every
\* descriptor of the index names a snapshot file that exists; a cleanup that
\* overlapped a capture leaves no descriptor whose file it deleted.
C28_NoDanglingDescriptor ==
    Quiescent =>
        \A i \in DOMAIN Held(indexFile) : Held(indexFile)[i].filename \in DOMAIN blobs

\* C29: after any sequence of captures and cleanups, overlapping ones
\* included, the index descriptors are in non-decreasing timestamp order, and
\* the oldestSnapshot and newestSnapshot of getHistorySummary, taken from the
\* first and the last descriptor, are the least and the greatest capture
\* time in the index.
C29_IndexInTimestampOrder ==
    /\ Quiescent =>
          \A i, j \in DOMAIN Held(indexFile) :
              i < j => Held(indexFile)[i].timestamp <= Held(indexFile)[j].timestamp
    /\ (Summarised /\ loaded.index # <<>>) =>
          \A i \in DOMAIN loaded.index :
              /\ loaded.summary.oldestSnapshot <= loaded.index[i].timestamp
              /\ loaded.summary.newestSnapshot >= loaded.index[i].timestamp

\* The snapshot files storeSnapshot has written whole.
Persisted == {f \in DOMAIN blobs : Parses(blobs[f]) /\ blobs[f].hasLists}

\* C30: every persisted entry is consistent, also when the feeds change
\* between the fetches of one capture: its totals.vehicles is the number of
\* its stored vehicle records, its totals.alerts the number of its stored
\* alert records, and the vehicleCount and alertCount of its index
\* descriptor are those same numbers.
C30_EntryInternallyConsistent ==
    /\ \A f \in Persisted :
          LET entry == ParseSnapshot(blobs[f])
          IN /\ entry.totals.vehicles = Len(entry.vehicles)
             /\ entry.totals.alerts = Len(entry.alerts)
    /\ \A i \in DOMAIN Held(indexFile) :
          LET d == Held(indexFile)[i]
          IN (d.id # UNDEFINED /\ d.filename \in Persisted) =>
                /\ d.vehicleCount = Len(ParseSnapshot(blobs[d.filename]).vehicles)
                /\ d.alertCount = Len(ParseSnapshot(blobs[d.filename]).alerts)

====
